---- MODULE Spec2Model ----
(***************************************************************************)
(* Verification model of the Copilot analytics services:                   *)
(*   - the lazy engine holders (services/*_loader.py, agents/             *)
(*     copilot_usage_agent.py),                                            *)
(*   - the CSV loaders and the query operations of the three engines       *)
(*     (services/copilot_usage.py, segment_adoption.py,                    *)
(*     premium_requests.py).                                               *)
(*                                                                         *)
(* Conventions.  A missing number (pandas NaN / NA, Python None in an      *)
(* Optional[float]) is the empty sequence, a present number v is <<v>>.    *)
(* A missing string (Python None) is the string NoneStr.  Months are       *)
(* pandas Period ordinals (months since 1970-01).  Percentages are kept in *)
(* thousandths of a percent; ":.1f" rendering rounds them to tenths.       *)
(***************************************************************************)
EXTENDS Integers, Sequences, FiniteSets, TLC

VARIABLES
    holder,     \* getter -> [analytics, error, ctorCalls]: the module globals of each lazy holder
    calls,      \* getter -> sequence of finished sequential calls (observed results)
    thr,        \* thread -> [pc, getter, ret]: position of each concurrent caller
    csv,        \* the CSV file(s) given to a constructor
    engine,     \* the constructed engine object (its tables and column selectors)
    out         \* result of the last constructor or query call

vars == <<holder, calls, thr, csv, engine, out>>

NoneStr == "<None>"
Nothing == <<>>
NaN == <<>>
Some(v) == <<v>>
IsNA(x) == x = <<>>
Val(x) == x[1]

(***************************************************************************)
(* Lazy engine holders                                                     *)
(***************************************************************************)
Getters == {"get_premium_requests_analytics", "get_segment_adoption_analytics", "_get_analytics"}

\* Exceptions an engine constructor can raise: its configuration error, or any other.
CtorErrors == {"ConfigError", "OtherError"}

MaxCalls == 3
NumThreads == 2
Threads == 1..NumThreads

HolderInit == [g \in Getters |-> [analytics |-> Nothing, error |-> Nothing, ctorCalls |-> 0]]

\* Outcome of one run of the engine constructor: "ok" or the exception raised.
CtorOutcomes == {"ok"} \cup CtorErrors

\* The engine object / exception object made by the n-th constructor run of getter g.
EngineObj(g, n) == Some([engine |-> g, ctor |-> n])
ErrorObj(kind, n) == Some([exc |-> kind, ctor |-> n])

\* A variant that forgets to cache the failure (error stays None).
GetterNoCache(h, g, outcome) ==
    IF IsNA(h.analytics) /\ IsNA(h.error)
    THEN LET n == h.ctorCalls + 1 IN
         IF outcome = "ok"
         THEN [holder |-> [h EXCEPT !.analytics = EngineObj(g, n), !.ctorCalls = n],
               result |-> [kind |-> "return", value |-> EngineObj(g, n), constructed |-> TRUE]]
         ELSE [holder |-> [h EXCEPT !.ctorCalls = n],
               result |-> [kind |-> "raise", value |-> ErrorObj(outcome, n), constructed |-> TRUE]]
    ELSE IF ~IsNA(h.error)
    THEN [holder |-> h, result |-> [kind |-> "raise", value |-> h.error, constructed |-> FALSE]]
    ELSE [holder |-> h, result |-> [kind |-> "return", value |-> h.analytics, constructed |-> FALSE]]

\* A variant that runs the constructor whenever no engine is cached, also
\* after a cached failure.
GetterRetry(h, g, outcome) ==
    IF IsNA(h.analytics)
    THEN LET n == h.ctorCalls + 1 IN
         IF outcome = "ok"
         THEN IF ~IsNA(h.error)
              THEN [holder |-> [h EXCEPT !.analytics = EngineObj(g, n), !.ctorCalls = n],
                    result |-> [kind |-> "raise", value |-> h.error, constructed |-> TRUE]]
              ELSE [holder |-> [h EXCEPT !.analytics = EngineObj(g, n), !.ctorCalls = n],
                    result |-> [kind |-> "return", value |-> EngineObj(g, n), constructed |-> TRUE]]
         ELSE [holder |-> [h EXCEPT !.error = ErrorObj(outcome, n), !.ctorCalls = n],
               result |-> [kind |-> "raise", value |-> ErrorObj(outcome, n), constructed |-> TRUE]]
    ELSE IF ~IsNA(h.error)
    THEN [holder |-> h, result |-> [kind |-> "raise", value |-> h.error, constructed |-> FALSE]]
    ELSE [holder |-> h, result |-> [kind |-> "return", value |-> h.analytics, constructed |-> FALSE]]

\* One whole, uninterrupted call of a lazy getter on holder state h, when the
\* constructor (if it runs) ends with `outcome`.
GetterCall(h, g, outcome) ==
    IF IsNA(h.analytics) /\ IsNA(h.error)
    THEN LET n == h.ctorCalls + 1 IN
         IF outcome = "ok"
         THEN [holder |-> [h EXCEPT !.analytics = EngineObj(g, n), !.ctorCalls = n],
               result |-> [kind |-> "return", value |-> EngineObj(g, n), constructed |-> TRUE]]
         ELSE [holder |-> [h EXCEPT !.error = ErrorObj(outcome, n), !.ctorCalls = n],
               result |-> [kind |-> "raise", value |-> ErrorObj(outcome, n), constructed |-> TRUE]]
    ELSE IF ~IsNA(h.error)
    THEN [holder |-> h, result |-> [kind |-> "raise", value |-> h.error, constructed |-> FALSE]]
    ELSE [holder |-> h, result |-> [kind |-> "return", value |-> h.analytics, constructed |-> FALSE]]

ThreadsIdle == [t \in Threads |-> [pc |-> "idle", getter |-> NoneStr, ret |-> Nothing]]

\* ---- sequential callers --------------------------------------------------
InitHolderSeq ==
    /\ holder = HolderInit
    /\ calls = [g \in Getters |-> <<>>]
    /\ thr = ThreadsIdle
    /\ csv = Nothing
    /\ engine = Nothing
    /\ out = Nothing

SeqCall(g) ==
    /\ Len(calls[g]) < MaxCalls
    /\ \E outcome \in CtorOutcomes :
         LET r == GetterCall(holder[g], g, outcome) IN
         /\ holder' = [holder EXCEPT ![g] = r.holder]
         /\ calls' = [calls EXCEPT ![g] = Append(@, r.result)]
    /\ UNCHANGED <<thr, csv, engine, out>>

NextHolderSeq == \E g \in Getters : SeqCall(g)

SpecHolderSeq == InitHolderSeq /\ [][NextHolderSeq]_vars

\* ---- concurrent callers --------------------------------------------------
\* A caller's position inside the getter: "idle" (not in a call), "L29" (about
\* to evaluate the both-None test), "L32" (about to run the constructor),
\* "L36" (about to test the cached error), "L38" (about to return the engine),
\* "done" (the call has returned or raised; ret holds the result; the caller
\* may call again).
InitHolderConc ==
    /\ holder = HolderInit
    /\ calls = [g \in Getters |-> <<>>]
    /\ thr = ThreadsIdle
    /\ csv = Nothing
    /\ engine = Nothing
    /\ out = Nothing

Enter(t, g) ==
    /\ thr[t].pc \in {"idle", "done"}
    /\ thr' = [thr EXCEPT ![t] = [pc |-> "L29", getter |-> g, ret |-> Nothing]]
    /\ UNCHANGED <<holder, calls, csv, engine, out>>

TestUninitialised(t) ==
    /\ thr[t].pc = "L29"
    /\ LET h == holder[thr[t].getter] IN
       thr' = [thr EXCEPT ![t].pc = IF IsNA(h.analytics) /\ IsNA(h.error) THEN "L32" ELSE "L36"]
    /\ UNCHANGED <<holder, calls, csv, engine, out>>

Construct(t) ==
    /\ thr[t].pc = "L32"
    /\ LET g == thr[t].getter
           n == holder[g].ctorCalls + 1
       IN \E outcome \in CtorOutcomes :
            IF outcome = "ok"
            THEN /\ holder' = [holder EXCEPT ![g].analytics = EngineObj(g, n), ![g].ctorCalls = n]
                 /\ thr' = [thr EXCEPT ![t].pc = "L36"]
            ELSE /\ holder' = [holder EXCEPT ![g].error = ErrorObj(outcome, n), ![g].ctorCalls = n]
                 /\ thr' = [thr EXCEPT ![t].pc = "done",
                                       ![t].ret = Some([kind |-> "raise", value |-> ErrorObj(outcome, n)])]
    /\ UNCHANGED <<calls, csv, engine, out>>

TestError(t) ==
    /\ thr[t].pc = "L36"
    /\ LET h == holder[thr[t].getter] IN
       IF ~IsNA(h.error)
       THEN thr' = [thr EXCEPT ![t].pc = "done",
                               ![t].ret = Some([kind |-> "raise", value |-> h.error])]
       ELSE thr' = [thr EXCEPT ![t].pc = "L38"]
    /\ UNCHANGED <<holder, calls, csv, engine, out>>

ReturnEngine(t) ==
    /\ thr[t].pc = "L38"
    /\ thr' = [thr EXCEPT ![t].pc = "done",
                          ![t].ret = Some([kind |-> "return", value |-> holder[thr[t].getter].analytics])]
    /\ UNCHANGED <<holder, calls, csv, engine, out>>

NextHolderConc ==
    \E t \in Threads :
        \/ \E g \in Getters : Enter(t, g)
        \/ TestUninitialised(t)
        \/ Construct(t)
        \/ TestError(t)
        \/ ReturnEngine(t)

SpecHolderConc == InitHolderConc /\ [][NextHolderConc]_vars

(***************************************************************************)
(* Tables, numbers and rendering shared by the engines                     *)
(***************************************************************************)
MaxRows == 2

RECURSIVE SumSeq(_)
SumSeq(s) == IF s = <<>> THEN 0 ELSE Head(s) + SumSeq(Tail(s))

\* All sequences over S of length lo..hi.
SeqsOf(S, lo, hi) == UNION {[1..n -> S] : n \in lo..hi}

\* The tables of lo..hi rows drawn from S, one per multiset of rows: the rows
\* of a file are listed in one fixed order (no result below depends on the
\* order of the rows of a file except through the order of ties).
RECURSIVE SetToSeq(_)
SetToSeq(S) == IF S = {} THEN <<>> ELSE LET x == CHOOSE y \in S : TRUE IN <<x>> \o SetToSeq(S \ {x})
TablesOf(S, lo, hi) ==
    LET list == SetToSeq(S) IN
    {[i \in 1..Len(ix) |-> list[ix[i]]] :
        ix \in {x \in SeqsOf(1..Len(list), lo, hi) : \A i \in 1..(Len(x) - 1) : x[i] <= x[i + 1]}}

Column(df, c) == [i \in 1..Len(df) |-> df[i][c]]
DropNA(s) == SelectSeq(s, LAMBDA x : ~IsNA(x))
\* Series.sum() / groupby sum: missing values are skipped, an all-missing sum is 0.
SeriesSum(s) == LET d == DropNA(s) IN SumSeq([i \in 1..Len(d) |-> Val(d[i])])
\* Series.nunique() of a column of a frame (missing values are not counted).
NUnique(df, c) == Cardinality({df[i][c] : i \in 1..Len(df)} \ {NoneStr})

\* DataFrame.head(n) and .tail(n) for n >= 0.
DfHead(df, n) == SubSeq(df, 1, IF n < Len(df) THEN n ELSE Len(df))
\* A variant that keeps the earliest rows instead of the latest.
DfEarliest(df, n) == SubSeq(df, 1, IF n < Len(df) THEN n ELSE Len(df))
DfTail(df, n) == SubSeq(df, IF n < Len(df) THEN Len(df) - n + 1 ELSE 1, Len(df))

\* A variant that leaves the groups in key order.
KeyOrder(s) == s

\* sort_values(key, ascending=False): descending, missing keys last, ties in input order.
RECURSIVE SortDesc(_)
SortDesc(s) ==
    IF s = <<>> THEN <<>>
    ELSE LET rest == SortDesc(SubSeq(s, 1, Len(s) - 1))
             x == s[Len(s)]
             k == Cardinality({i \in 1..Len(rest) :
                      IsNA(x.key) \/ (~IsNA(rest[i].key) /\ Val(rest[i].key) >= Val(x.key))})
         IN SubSeq(rest, 1, k) \o <<x>> \o SubSeq(rest, k + 1, Len(rest))

\* Group keys in the order groupby() yields them (ascending).
RECURSIVE SortedInts(_)
SortedInts(S) ==
    IF S = {} THEN <<>>
    ELSE LET m == CHOOSE x \in S : \A y \in S : x <= y IN <<m>> \o SortedInts(S \ {m})

\* The names used in the data and in arguments, in code-point order.
NameOrder ==
    <<"ASIA", "Canada", "US", "Unassigned", "asia", "canada", "claude", "gpt",
      "manulife", "manulife-financial", "unknown">>
SortedNames(S) == SelectSeq(NameOrder, LAMBDA n : n \in S)
\* str.casefold()
Casefold(s) == CASE s = "ASIA" -> "asia" [] s = "Canada" -> "canada" [] s = "US" -> "us" [] OTHER -> s

\* col.strip().lower().replace(" ", "_") on a header cell.
NormalizeHeader(col) ==
    CASE col = "Request Date" -> "request_date"
      [] col = " Segment " -> "segment"
      [] col = "MFCGD_ID" -> "mfcgd_id"
      [] col = "Active Users FTE" -> "active_users_fte"
      [] col = "Total Seats NonFTE" -> "total_seats_nonfte"
      [] OTHER -> col

\* Python truthiness of an Optional[str] argument: None and "" are falsy.
Truthy(s) == s # NoneStr /\ s # ""

\* Months: "YYYY-MM" labels of the Period ordinals 660.. (months since 1970-01).
MonthNames == <<"2025-01", "2025-02", "2025-03">>
Strftime(p) == MonthNames[p - 659]
\* pd.Period(value, freq="M") / pd.to_datetime(value).to_period("M"): the month of
\* the date the text denotes (a day, when given, is truncated); Nothing when the
\* text is no date.
ParsePeriod(s) ==
    CASE s = "2025-01" -> Some(660)
      [] s = "2025-02" -> Some(661)
      [] s = "2025-02-15" -> Some(661)
      [] s = "2025-03" -> Some(662)
      [] OTHER -> Nothing

\* pd.Period(value, freq="M") on an argument: as for a cell, except that the
\* not-a-time spellings are accepted and give NaT (pandas keeps it as a
\* sentinel ordinal); Nothing when the constructor raises.
NaTOrdinal == 0
NatStrings == {"NaT", "nan"}
IsNaT(bound) == bound = Some(NaTOrdinal)
PeriodOf(value) == IF value \in NatStrings THEN Some(NaTOrdinal) ELSE ParsePeriod(value)

\* Rendered numbers.  n is the integer shown, or the tenths shown by ":.1f".
Shown(n) == [txt |-> "num", n |-> n]
\* f"{x:.1f}" of a float kept in thousandths; NaN renders "nan", infinity "inf".
Inf == <<1, 0>>
Fmt1(x) ==
    IF IsNA(x) THEN [txt |-> "nan", n |-> 0]
    ELSE IF x = Inf THEN [txt |-> "inf", n |-> 0]
    ELSE Shown((Val(x) + 50) \div 100)
\* An optional clause of a line: left out when the value is None.
Clause(x) == IF IsNA(x) THEN [txt |-> "omitted", n |-> 0] ELSE Fmt1(x)

\* Results of a call.
NoPeriod == [form |-> "none", a |-> NoneStr, b |-> NoneStr]
Line(tag, name, month, vals) == [tag |-> tag, name |-> name, month |-> month, vals |-> vals]
Text(title, scope, period, lines) ==
    [kind |-> "text", exc |-> NoneStr, title |-> title, scope |-> scope, period |-> period,
     missing |-> {}, lines |-> lines]
Sentence(text) ==
    [kind |-> "sentence", exc |-> NoneStr, title |-> text, scope |-> NoneStr, period |-> NoPeriod,
     missing |-> {}, lines |-> <<>>]
Raise(exc, msg, missing) ==
    [kind |-> "raise", exc |-> exc, title |-> msg, scope |-> NoneStr, period |-> NoPeriod,
     missing |-> missing, lines |-> <<>>]
Returned(value) == [kind |-> "return", value |-> value]

\* NaT.strftime(...), which description() and leaders() reach for a NaT bound.
HasNaT(period) == IsNaT(period.start) \/ IsNaT(period.end)
NaTStrftime == Raise("ValueError", "NaTType does not support strftime", {})

\* DateRange.description() for bounds that are months
Description(period) ==
    IF ~IsNA(period.start) /\ ~IsNA(period.end)
    THEN IF period.start = period.end
         THEN [form |-> "month", a |-> Strftime(Val(period.start)), b |-> NoneStr]
         ELSE [form |-> "range", a |-> Strftime(Val(period.start)), b |-> Strftime(Val(period.end))]
    ELSE IF ~IsNA(period.start)
    THEN [form |-> "from", a |-> Strftime(Val(period.start)), b |-> NoneStr]
    ELSE IF ~IsNA(period.end)
    THEN [form |-> "up to", a |-> Strftime(Val(period.end)), b |-> NoneStr]
    ELSE [form |-> "all available months", a |-> NoneStr, b |-> NoneStr]

\* _parse_month: the Period, or the engine's configuration error.
ParseMonth(value, exc) ==
    IF IsNA(PeriodOf(value))
    THEN Raise(exc, "Unable to parse as YYYY-MM month value", {})
    ELSE Returned(PeriodOf(value))

\* A variant that swallows unparsable text (no bound instead of an error).
NormalizeRangeLenient(start_month, end_month, exc) ==
    LET start == IF Truthy(start_month) THEN ParsePeriod(start_month) ELSE Nothing
        end == IF Truthy(end_month) THEN ParsePeriod(end_month) ELSE Nothing
    IN Returned([start |-> start, end |-> end])

\* _normalize_range (the same code in the three engines, each with its own
\* configuration error class): the DateRange, or the error raised.
NormalizeRange(start_month, end_month, exc) ==
    LET start == IF Truthy(start_month) THEN ParseMonth(start_month, exc) ELSE Returned(Nothing)
        end == IF Truthy(end_month) THEN ParseMonth(end_month, exc) ELSE Returned(Nothing)
    IN IF start.kind = "raise" THEN start
       ELSE IF end.kind = "raise" THEN end
       ELSE IF /\ ~IsNA(start.value) /\ ~IsNA(end.value)
               /\ ~IsNaT(start.value) /\ ~IsNaT(end.value)
               /\ Val(start.value) > Val(end.value)
       THEN Raise(exc, "start_month must be earlier than end_month", {})
       ELSE Returned([start |-> start.value, end |-> end.value])

\* The month filter shared by the three _filter methods.
InPeriod(month, period) ==
    /\ IsNA(period.start) \/ (~IsNaT(period.start) /\ month >= Val(period.start))
    /\ IsNA(period.end) \/ (~IsNaT(period.end) /\ month <= Val(period.end))

(***************************************************************************)
(* Segment adoption engine (services/segment_adoption.py)                  *)
(***************************************************************************)
SegErr == "SegmentAdoptionConfigError"
SegRequired == {"month", "segment", "active_fte", "seats_fte"}
SegOptional == {"active_non_fte", "seats_non_fte", "billing_adoption_fte", "billing_adoption_non_fte"}
SegMetrics == {"fte_adoption", "non_fte_adoption", "fte_active", "non_fte_active"}

\* Float division times 100 without a mask (adoption_trend's adoption_rate):
\* x/0 is inf, 0/0 and missing operands are NaN.
FloatPercentage(numerator, denominator) ==
    IF IsNA(numerator) \/ IsNA(denominator) THEN NaN
    ELSE IF Val(denominator) = 0 THEN (IF Val(numerator) = 0 THEN NaN ELSE Inf)
    ELSE Some((Val(numerator) * 100000) \div Val(denominator))

\* A variant that reports a ratio with no seats as zero.
PercentageOrZero(numerator, denominator) ==
    IF ~IsNA(denominator) /\ Val(denominator) > 0 /\ ~IsNA(numerator)
    THEN Some((Val(numerator) * 100000) \div Val(denominator))
    ELSE Some(0)

\* _safe_percentage, element-wise: numerator / denominator * 100 where the
\* denominator is > 0 and the numerator is present, NaN elsewhere.
SafePercentage(numerator, denominator) ==
    IF ~IsNA(denominator) /\ Val(denominator) > 0 /\ ~IsNA(numerator)
    THEN Some((Val(numerator) * 100000) \div Val(denominator))
    ELSE NaN

FillNA0(x) == IF IsNA(x) THEN Some(0) ELSE x

\* One row of the loaded frame from one row of the file (columns already
\* renamed, cells already cleaned and converted by to_numeric).
SegRow(r, columns) ==
    [month |-> Val(ParsePeriod(r.month)),
     segment |-> r.segment,
     active_fte |-> r.active_fte,
     seats_fte |-> r.seats_fte,
     active_non_fte |-> FillNA0(r.active_non_fte),
     seats_non_fte |-> FillNA0(r.seats_non_fte),
     billing_adoption_fte |-> r.billing_adoption_fte,
     billing_adoption_non_fte |->
         IF "billing_adoption_non_fte" \in columns THEN r.billing_adoption_non_fte ELSE NaN,
     fte_utilisation_pct |-> SafePercentage(r.active_fte, r.seats_fte),
     non_fte_utilisation_pct |->
         SafePercentage(FillNA0(r.active_non_fte), FillNA0(r.seats_non_fte))]

\* rename_map of _load, applied to a normalised header.
SegRename(col) ==
    CASE col = "active_users_fte" -> "active_fte"
      [] col = "active_users_nonfte" -> "active_non_fte"
      [] col = "total_seats_fte" -> "seats_fte"
      [] col = "total_seats_nonfte" -> "seats_non_fte"
      [] col = "billing_adoption_nonfte" -> "billing_adoption_non_fte"
      [] OTHER -> col

\* The columns of the frame after the headers are normalised and renamed.
SegColumns(file) == {SegRename(NormalizeHeader(c)) : c \in file.columns}

\* SegmentAdoptionAnalytics.__init__ and _load: the frame, or the exception raised.
SegConstruct(file) ==
    LET columns == SegColumns(file) IN
    IF ~file.exists THEN Raise(SegErr, "Segment adoption CSV not found", {})
    ELSE IF SegRequired \ columns # {}
    THEN Raise(SegErr, "Segment adoption CSV missing required columns", SegRequired \ columns)
    ELSE IF "active_non_fte" \notin columns THEN Raise("KeyError", "active_non_fte", {})
    ELSE IF "seats_non_fte" \notin columns THEN Raise("KeyError", "seats_non_fte", {})
    ELSE IF "billing_adoption_fte" \notin columns THEN Raise("KeyError", "billing_adoption_fte", {})
    ELSE LET kept == SelectSeq(file.rows, LAMBDA r : ~IsNA(ParsePeriod(r.month)) /\ r.segment # NoneStr)
         IN Returned([kind |-> "segment", data |-> [i \in 1..Len(kept) |-> SegRow(kept[i], columns)]])

\* _filter
SegFilter(data, segment, period) ==
    SelectSeq(data, LAMBDA r :
        /\ Truthy(segment) => Casefold(r.segment) = Casefold(segment)
        /\ InPeriod(r.month, period))

\* _aggregate_int and _aggregate_percentage
AggregateInt(df, column) ==
    LET series == DropNA(Column(df, column)) IN
    IF series = <<>> THEN Nothing ELSE Some(SeriesSum(series))
AggregatePercentage(df, column) ==
    LET series == DropNA(Column(df, column)) IN
    IF series = <<>> THEN Nothing ELSE Some(SeriesSum(series) \div Len(series))

\* SegmentSummary.as_lines (without the heading line)
AsLines(sm) ==
    (IF ~IsNA(sm.fte_active) /\ ~IsNA(sm.fte_seats)
     THEN <<Line("FTE", NoneStr, NoneStr,
                 <<Shown(Val(sm.fte_active)), Shown(Val(sm.fte_seats)),
                   Clause(sm.fte_coverage), Clause(sm.fte_billing)>>)>>
     ELSE <<>>)
    \o
    (IF /\ ~IsNA(sm.contractor_active) /\ ~IsNA(sm.contractor_seats)
        /\ ~(/\ Val(sm.contractor_seats) = 0
             /\ Val(sm.contractor_active) = 0
             /\ IsNA(sm.contractor_billing))
     THEN <<Line("Non-FTE", NoneStr, NoneStr,
                 <<Shown(Val(sm.contractor_active)), Shown(Val(sm.contractor_seats)),
                   Clause(sm.contractor_coverage), Clause(sm.contractor_billing)>>)>>
     ELSE <<>>)

ScopeLabel(segment) == IF Truthy(segment) THEN segment ELSE "all segments"

\* SegmentAdoptionAnalytics.summary
SegSummary(data, segment, start_month, end_month) ==
    LET nr == NormalizeRange(start_month, end_month, SegErr) IN
    IF nr.kind = "raise" THEN nr
    ELSE
    LET period == nr.value
        scoped == SegFilter(data, segment, period)
        sm == [fte_active |-> AggregateInt(scoped, "active_fte"),
               fte_seats |-> AggregateInt(scoped, "seats_fte"),
               fte_coverage |-> AggregatePercentage(scoped, "fte_utilisation_pct"),
               fte_billing |-> AggregatePercentage(scoped, "billing_adoption_fte"),
               contractor_active |-> AggregateInt(scoped, "active_non_fte"),
               contractor_seats |-> AggregateInt(scoped, "seats_non_fte"),
               contractor_coverage |-> AggregatePercentage(scoped, "non_fte_utilisation_pct"),
               contractor_billing |-> AggregatePercentage(scoped, "billing_adoption_non_fte")]
        peak == DfHead(SortDesc([i \in 1..Len(scoped) |->
                          [key |-> scoped[i].fte_utilisation_pct, row |-> scoped[i]]]), 1)
    IN IF scoped = <<>>
       THEN Sentence("No segment adoption records match the requested scope.")
       ELSE Text("Segment adoption summary", ScopeLabel(segment), Description(period),
                 AsLines(sm) \o
                 <<Line("Highest FTE coverage", peak[1].row.segment, Strftime(peak[1].row.month),
                        <<Fmt1(peak[1].row.fte_utilisation_pct)>>)>>)

\* The (column, description) table of trend and leaders.
MetricColumn(metric) ==
    CASE metric = "fte_adoption" -> "fte_utilisation_pct"
      [] metric = "non_fte_adoption" -> "non_fte_utilisation_pct"
      [] metric = "fte_active" -> "active_fte"
      [] metric = "non_fte_active" -> "active_non_fte"
MetricDescription(metric) ==
    CASE metric = "fte_adoption" -> "FTE utilisation"
      [] metric = "non_fte_adoption" -> "Non-FTE utilisation"
      [] metric = "fte_active" -> "Active FTE"
      [] metric = "non_fte_active" -> "Active Non-FTE"

\* A variant that keeps the mean of the rows' own percentages.
GroupMeans(rows) ==
    [active_fte |-> Some(SeriesSum(Column(rows, "active_fte"))),
     seats_fte |-> Some(SeriesSum(Column(rows, "seats_fte"))),
     active_non_fte |-> Some(SeriesSum(Column(rows, "active_non_fte"))),
     seats_non_fte |-> Some(SeriesSum(Column(rows, "seats_non_fte"))),
     fte_utilisation_pct |-> AggregatePercentage(rows, "fte_utilisation_pct"),
     non_fte_utilisation_pct |-> AggregatePercentage(rows, "non_fte_utilisation_pct")]

\* The sums of one group of rows and the percentages recomputed from them
\* (_group_monthly, and the groupby("segment") of leaders).
GroupSums(rows) ==
    LET s == [c \in {"active_fte", "seats_fte", "active_non_fte", "seats_non_fte"} |->
                 Some(SeriesSum(Column(rows, c)))]
    IN [active_fte |-> s["active_fte"], seats_fte |-> s["seats_fte"],
        active_non_fte |-> s["active_non_fte"], seats_non_fte |-> s["seats_non_fte"],
        fte_utilisation_pct |-> SafePercentage(s["active_fte"], s["seats_fte"]),
        non_fte_utilisation_pct |-> SafePercentage(s["active_non_fte"], s["seats_non_fte"])]

\* _group_monthly: one record per month in scope, ascending.
GroupMonthly(scoped) ==
    LET months == SortedInts({scoped[i].month : i \in 1..Len(scoped)}) IN
    [k \in 1..Len(months) |->
        [key |-> months[k],
         rec |-> GroupSums(SelectSeq(scoped, LAMBDA r : r.month = months[k]))]]

\* One rendered value of trend / leaders.
MetricValue(metric, value) ==
    IF metric \in {"fte_active", "non_fte_active"} THEN Shown(Val(value)) ELSE Fmt1(value)

\* SegmentAdoptionAnalytics.trend
SegTrend(data, segment, metric, start_month, end_month, limit) ==
    LET nr == NormalizeRange(start_month, end_month, SegErr) IN
    IF nr.kind = "raise" THEN nr
    ELSE
    LET period == nr.value
        scoped == SegFilter(data, segment, period)
        rows == DfTail(GroupMonthly(scoped), limit)
    IN IF scoped = <<>>
       THEN Sentence("No segment adoption records match the requested scope.")
       ELSE IF metric \notin SegMetrics THEN Raise("KeyError", metric, {})
       ELSE Text(MetricDescription(metric), ScopeLabel(segment), Description(period),
                 [k \in 1..Len(rows) |->
                     Line("month", NoneStr, Strftime(rows[k].key),
                          <<IF IsNA(rows[k].rec[MetricColumn(metric)])
                            THEN [txt |-> "no data", n |-> 0]
                            ELSE MetricValue(metric, rows[k].rec[MetricColumn(metric)])>>)])

\* SegmentAdoptionAnalytics.leaders
SegLeaders(data, month, metric, limit) ==
    LET target == IF Truthy(month) THEN ParseMonth(month, SegErr) ELSE Returned(Nothing) IN
    IF target.kind = "raise" THEN target
    ELSE IF IsNaT(target.value) THEN NaTStrftime
    ELSE
    LET scoped == IF Truthy(month)
                  THEN SelectSeq(data, LAMBDA r : r.month = Val(target.value))
                  ELSE data
        period_label == IF Truthy(month)
                        THEN [form |-> "month", a |-> Strftime(Val(target.value)), b |-> NoneStr]
                        ELSE [form |-> "all available months", a |-> NoneStr, b |-> NoneStr]
        names == SortedNames({scoped[i].segment : i \in 1..Len(scoped)})
        aggregated == [k \in 1..Len(names) |->
                          [name |-> names[k],
                           rec |-> GroupSums(SelectSeq(scoped, LAMBDA r : r.segment = names[k]))]]
        ordered == DfHead(SortDesc([k \in 1..Len(aggregated) |->
                              [key |-> aggregated[k].rec[MetricColumn(metric)],
                               name |-> aggregated[k].name]]), limit)
        shown == SelectSeq(ordered, LAMBDA o : ~IsNA(o.key))
        nodata == Sentence("No segment adoption data available for the requested period.")
    IN IF scoped = <<>> THEN nodata
       ELSE IF metric \notin SegMetrics THEN Raise("KeyError", metric, {})
       ELSE IF ordered = <<>> THEN nodata
       ELSE IF shown = <<>> THEN nodata
       ELSE Text(MetricDescription(metric), NoneStr, period_label,
                 [k \in 1..Len(shown) |->
                     Line("segment", shown[k].name, NoneStr, <<MetricValue(metric, shown[k].key)>>)])

(***************************************************************************)
(* Developer usage engine (services/copilot_usage.py)                      *)
(***************************************************************************)
UsageErr == "AnalyticsConfigError"
UsageRequired == {"developer_id", "division", "month"}

\* _coerce_month / the timestamp branch: TRUE when every cell fails to parse
\* (also for a file without rows).
AllNaT(cells) == \A i \in 1..Len(cells) : IsNA(ParsePeriod(cells[i]))

\* _load_developer_usage: the frame, or the error raised.
LoadDeveloperUsage(file) ==
    IF UsageRequired \ file.columns # {}
    THEN Raise(UsageErr, "Developer usage CSV is missing required columns", UsageRequired \ file.columns)
    ELSE IF AllNaT(Column(file.rows, "month"))
    THEN Raise(UsageErr, "Failed to parse month values in developer usage", {})
    ELSE LET kept == SelectSeq(file.rows, LAMBDA r : ~IsNA(ParsePeriod(r.month))) IN
         Returned([i \in 1..Len(kept) |->
             [developer_id |-> kept[i].developer_id,
              division |-> IF kept[i].division = NoneStr THEN "Unassigned" ELSE kept[i].division,
              month |-> Val(ParsePeriod(kept[i].month))]])

\* developer_usage[["developer_id", "division"]].drop_duplicates(): first occurrences, in order.
RECURSIVE DropDuplicates(_)
DropDuplicates(pairs) ==
    IF pairs = <<>> THEN <<>>
    ELSE LET front == DropDuplicates(SubSeq(pairs, 1, Len(pairs) - 1))
             x == pairs[Len(pairs)]
         IN IF \E i \in 1..Len(front) : front[i] = x THEN front ELSE Append(front, x)

\* df.merge(right, on="developer_id", how="left"): each interaction row once per
\* matching usage pair, or once with a missing division when there is none.
RECURSIVE MergeDivision(_, _)
MergeDivision(rows, pairs) ==
    IF rows = <<>> THEN <<>>
    ELSE LET r == Head(rows)
             hits == SelectSeq(pairs, LAMBDA q : q.developer_id = r.developer_id)
         IN (IF hits = <<>> THEN <<[r EXCEPT !.division = NoneStr]>>
             ELSE [k \in 1..Len(hits) |-> [r EXCEPT !.division = hits[k].division]])
            \o MergeDivision(Tail(rows), pairs)

\* One interaction row of the frame from one row of the file.
InteractionRow(r, columns) ==
    [developer_id |-> IF "developer_id" \in columns THEN r.developer_id ELSE NoneStr,
     month |-> Val(ParsePeriod(IF "month" \in columns THEN r.month ELSE r.timestamp)),
     division |-> IF "division" \in columns THEN r.division ELSE NoneStr,
     model |-> IF "model" \in columns THEN r.model ELSE NoneStr,
     request_count |-> IF "request_count" \in columns THEN r.request_count ELSE Nothing,
     lines_suggested |-> IF "lines_suggested" \in columns THEN r.lines_suggested ELSE Nothing,
     lines_accepted |-> IF "lines_accepted" \in columns THEN r.lines_accepted ELSE Nothing]

\* _load_interactions: the frame and its columns, or the error raised.
LoadInteractions(file, developer_usage) ==
    LET col == IF "month" \in file.columns THEN "month" ELSE "timestamp"
        kept == SelectSeq(file.rows, LAMBDA r : ~IsNA(ParsePeriod(r[col])))
        frame == [i \in 1..Len(kept) |-> InteractionRow(kept[i], file.columns)]
        pairs == DropDuplicates([i \in 1..Len(developer_usage) |->
                     [developer_id |-> developer_usage[i].developer_id,
                      division |-> developer_usage[i].division]])
    IN IF "month" \notin file.columns /\ "timestamp" \notin file.columns
       THEN Raise(UsageErr, "Interaction metrics CSV must include a 'month' column or a 'timestamp' column",
                  {"month", "timestamp"})
       ELSE IF AllNaT(Column(file.rows, col))
       THEN Raise(UsageErr, IF col = "month" THEN "Failed to parse month values in interaction metrics"
                            ELSE "Interaction metrics CSV contains invalid timestamp values", {})
       ELSE IF "division" \in file.columns
       THEN Returned([rows |-> frame, columns |-> file.columns \cup {"month"}])
       ELSE IF "developer_id" \notin file.columns THEN Raise("KeyError", "developer_id", {})
       ELSE Returned([rows |-> MergeDivision(frame, pairs),
                      columns |-> file.columns \cup {"month", "division"}])

\* _select_first_numeric: the first candidate that is a (numeric) column.
RECURSIVE SelectFirstNumeric(_, _)
SelectFirstNumeric(columns, candidates) ==
    IF candidates = <<>> THEN NoneStr
    ELSE IF Head(candidates) \in columns THEN Head(candidates)
    ELSE SelectFirstNumeric(columns, Tail(candidates))

\* CopilotUsageAnalytics.__init__
UsageConstruct(files) ==
    IF ~files.usage.exists THEN Raise(UsageErr, "Developer usage CSV not found", {})
    ELSE IF ~files.interactions.exists THEN Raise(UsageErr, "Interaction metrics CSV not found", {})
    ELSE
    LET du == LoadDeveloperUsage(files.usage) IN
    IF du.kind = "raise" THEN du
    ELSE
    LET ia == LoadInteractions(files.interactions, du.value) IN
    IF ia.kind = "raise" THEN ia
    ELSE Returned(
        [kind |-> "usage", developer_usage |-> du.value,
         interactions |-> ia.value.rows, columns |-> ia.value.columns,
         request_column |-> SelectFirstNumeric(ia.value.columns,
             <<"request_count", "requests", "num_requests", "total_requests">>),
         suggested_column |-> SelectFirstNumeric(ia.value.columns,
             <<"lines_suggested", "suggested_lines", "lines_generated", "tokens_suggested">>),
         accepted_column |-> SelectFirstNumeric(ia.value.columns,
             <<"lines_accepted", "accepted_lines", "lines_committed", "tokens_accepted">>)])

\* A variant of _population_size that ignores the division filter.
PopulationSizeAll(e, division) == NUnique(e.developer_usage, "developer_id")

\* _population_size
PopulationSize(e, division) ==
    IF Truthy(division)
    THEN NUnique(SelectSeq(e.developer_usage, LAMBDA r : Casefold(r.division) = Casefold(division)),
                 "developer_id")
    ELSE NUnique(e.developer_usage, "developer_id")

\* _filter_interactions
FilterInteractions(e, division, period) ==
    SelectSeq(e.interactions, LAMBDA r :
        /\ Truthy(division) => (r.division # NoneStr /\ Casefold(r.division) = Casefold(division))
        /\ InPeriod(r.month, period))

\* _sum_numeric: None without a column, else the sum.
SumNumeric(e, df, column) ==
    IF column = NoneStr \/ column \notin e.columns THEN Nothing
    ELSE Some(SeriesSum(Column(df, column)))

\* groupby(key)[weight].sum() or groupby(key).size(), as (name, value) records
\* in key order; rows with a missing key are left out.
GroupWeights(df, key, weight) ==
    LET names == SortedNames({df[i][key] : i \in 1..Len(df)} \ {NoneStr}) IN
    [k \in 1..Len(names) |->
        LET rows == SelectSeq(df, LAMBDA r : r[key] = names[k]) IN
        [name |-> names[k],
         key |-> Some(IF weight = NoneStr THEN Len(rows) ELSE SeriesSum(Column(rows, weight)))]]

\* The share lines of _model_mix and model_mix.
ShareLines(counts, n) ==
    LET total == SumSeq([k \in 1..Len(counts) |-> Val(counts[k].key)])
        top == DfHead(SortDesc(counts), n)
    IN [k \in 1..Len(top) |->
           Line("model", top[k].name, NoneStr, <<Fmt1(Some((Val(top[k].key) * 100000) \div total))>>)]

\* _model_mix
TopModels(e, df, top_n) ==
    LET counts == GroupWeights(df, "model", IF e.request_column \in e.columns THEN e.request_column ELSE NoneStr)
    IN IF df = <<>> \/ "model" \notin e.columns THEN <<>>
       ELSE IF SumSeq([k \in 1..Len(counts) |-> Val(counts[k].key)]) = 0 THEN <<>>
       ELSE ShareLines(counts, top_n)

TargetLabel(division) == IF Truthy(division) THEN division ELSE "all divisions"

\* CopilotUsageAnalytics.summarize_usage
SummarizeUsage(e, division, start_month, end_month) ==
    LET nr == NormalizeRange(start_month, end_month, UsageErr) IN
    IF nr.kind = "raise" THEN nr
    ELSE
    LET period == nr.value
        population == PopulationSize(e, division)
        scoped == FilterInteractions(e, division, period)
        active_developers == NUnique(scoped, "developer_id")
        requests == SumNumeric(e, scoped, e.request_column)
        total_requests == IF IsNA(requests) THEN Len(scoped) ELSE Val(requests)
        suggested_lines == SumNumeric(e, scoped, e.suggested_column)
        accepted_lines == SumNumeric(e, scoped, e.accepted_column)
        acceptance_rate == IF ~IsNA(suggested_lines) /\ Val(suggested_lines) # 0
                           THEN Some(((IF IsNA(accepted_lines) THEN 0 ELSE Val(accepted_lines)) * 100000)
                                         \div Val(suggested_lines))
                           ELSE Nothing
        top_models == TopModels(e, scoped, 3)
    IN IF population = 0
       THEN Sentence("No developers found for the specified division. Verify the COPILOT_USAGE_CSV content.")
       ELSE IF HasNaT(period) THEN NaTStrftime
       ELSE Text("Scope", TargetLabel(division), Description(period),
            <<Line("Active developers", NoneStr, NoneStr,
                   <<Shown(active_developers), Shown(population),
                     Fmt1(Some((active_developers * 100000) \div population))>>),
              Line("Copilot requests", NoneStr, NoneStr, <<Shown(total_requests)>>)>>
            \o (IF ~IsNA(suggested_lines) /\ ~IsNA(accepted_lines)
                THEN <<Line(IF ~IsNA(acceptance_rate) THEN "Lines accepted" ELSE "", NoneStr, NoneStr,
                            <<Shown(Val(accepted_lines)), Shown(Val(suggested_lines)), Clause(acceptance_rate)>>)>>
                ELSE IF ~IsNA(accepted_lines)
                THEN <<Line("Lines accepted", NoneStr, NoneStr, <<Shown(Val(accepted_lines))>>)>>
                ELSE <<>>)
            \o (IF top_models # <<>> THEN <<Line("Top models", NoneStr, NoneStr, <<>>)>> \o top_models ELSE <<>>))

\* _population_by_month: distinct developers per usage month (of the division).
PopulationByMonth(e, division, month) ==
    LET scoped == SelectSeq(e.developer_usage, LAMBDA r :
                      /\ Truthy(division) => Casefold(r.division) = Casefold(division)
                      /\ r.month = month)
    IN IF scoped = <<>> THEN Nothing ELSE Some(NUnique(scoped, "developer_id"))

\* Series.ffill() over the joined frame: a missing value takes the last present one before it.
RECURSIVE FFill(_)
FFill(s) ==
    IF s = <<>> THEN <<>>
    ELSE LET front == FFill(SubSeq(s, 1, Len(s) - 1))
             x == s[Len(s)]
         IN Append(front, IF IsNA(x) /\ front # <<>> THEN front[Len(front)] ELSE x)

\* CopilotUsageAnalytics.adoption_trend
AdoptionTrend(e, division, start_month, end_month, limit) ==
    LET nr == NormalizeRange(start_month, end_month, UsageErr) IN
    IF nr.kind = "raise" THEN nr
    ELSE
    LET period == nr.value
        scoped == FilterInteractions(e, division, period)
        months == SortedInts({scoped[i].month : i \in 1..Len(scoped)})
        population == FFill([k \in 1..Len(months) |-> PopulationByMonth(e, division, months[k])])
        joined == SelectSeq([k \in 1..Len(months) |->
                      [month |-> months[k],
                       active_developers |-> NUnique(SelectSeq(scoped, LAMBDA r : r.month = months[k]),
                                                     "developer_id"),
                       population |-> population[k]]],
                      LAMBDA j : ~IsNA(j.population))
        rows == DfTail(joined, limit)
    IN IF scoped = <<>> THEN Sentence("No interaction records match the requested scope.")
       ELSE IF joined = <<>> THEN Sentence("Population data is missing for the requested period.")
       ELSE Text("Adoption trend", TargetLabel(division), Description(period),
                 [k \in 1..Len(rows) |->
                     Line("month", NoneStr, Strftime(rows[k].month),
                          <<Fmt1(FloatPercentage(Some(rows[k].active_developers), rows[k].population)),
                            Shown(rows[k].active_developers), Shown(Val(rows[k].population))>>)])

\* CopilotUsageAnalytics.model_mix
ModelMix(e, division, start_month, end_month, limit) ==
    LET nr == NormalizeRange(start_month, end_month, UsageErr) IN
    IF nr.kind = "raise" THEN nr
    ELSE
    LET period == nr.value
        scoped == FilterInteractions(e, division, period)
        requests == SumNumeric(e, scoped, e.request_column)
        weight == IF ~IsNA(requests) /\ Val(requests) # 0 THEN e.request_column ELSE NoneStr
        mix == GroupWeights(scoped, "model", weight)
    IN IF scoped = <<>> THEN Sentence("Model usage data is not available for the requested scope.")
       ELSE IF "model" \notin e.columns THEN Sentence("The interaction dataset does not contain a model column.")
       ELSE IF SumSeq([k \in 1..Len(mix) |-> Val(mix[k].key)]) = 0
       THEN Sentence("No model usage captured for the requested scope.")
       ELSE Text("Model mix", TargetLabel(division), Description(period), ShareLines(mix, limit))

\* CopilotUsageAnalytics.division_breakdown
DivisionBreakdown(e, start_month, end_month, limit) ==
    LET nr == NormalizeRange(start_month, end_month, UsageErr) IN
    IF nr.kind = "raise" THEN nr
    ELSE
    LET period == nr.value
        scoped == FilterInteractions(e, NoneStr, period)
        names == SortedNames({scoped[i].division : i \in 1..Len(scoped)} \ {NoneStr})
        counts == [k \in 1..Len(names) |->
                      [name |-> names[k],
                       key |-> Some(NUnique(SelectSeq(scoped, LAMBDA r : r.division = names[k]),
                                            "developer_id"))]]
        top == DfHead(SortDesc(counts), limit)
    IN IF scoped = <<>> THEN Sentence("No interactions available to compute division breakdown.")
       ELSE IF "division" \notin e.columns THEN Sentence("Division information is missing from the datasets.")
       ELSE Text("Top divisions by active Copilot users", NoneStr, Description(period),
                 [k \in 1..Len(top) |->
                     LET population == PopulationSize(e, top[k].name) IN
                     Line("division", top[k].name, NoneStr,
                          <<Shown(Val(top[k].key)),
                            IF population # 0
                            THEN Fmt1(Some((Val(top[k].key) * 100000) \div population))
                            ELSE Fmt1(Some(0))>>)])

(***************************************************************************)
(* Premium requests engine (services/premium_requests.py)                  *)
(***************************************************************************)
PremErr == "PremiumRequestsConfigError"
PremRequired ==
    {"request_date", "mfcgd_id", "enterprise", "model", "quantity", "gross_amount",
     "discount_amount", "net_amount", "segment", "is_employee"}
PremMetrics == {"requests", "cost", "users"}
UserTypes == {"fte", "contractor", "all"}

\* cell.str.upper().isin(["TRUE", "T", "1", "YES"]); a missing cell is False.
IsTrueText(cell) == cell \in {"TRUE", "true", "True", "T", "t", "1", "YES", "yes", "Yes"}

\* One row of the frame from one row of the file (amounts in cents).
PremRow(r, columns) ==
    [month |-> Val(ParsePeriod(r.request_date)),
     mfcgd_id |-> r.mfcgd_id, model |-> r.model,
     enterprise |-> IF r.enterprise = NoneStr THEN "unknown" ELSE r.enterprise,
     segment |-> IF r.segment = NoneStr THEN "Unassigned" ELSE r.segment,
     quantity |-> FillNA0(r.quantity), gross_amount |-> FillNA0(r.gross_amount),
     discount_amount |-> FillNA0(r.discount_amount), net_amount |-> FillNA0(r.net_amount),
     is_employee |-> IsTrueText(r.is_employee),
     exceeds_quota |-> IF "exceeds_quota" \in columns THEN IsTrueText(r.exceeds_quota) ELSE FALSE]

\* The columns of the frame after the headers are normalised.
PremColumns(file) == {NormalizeHeader(c) : c \in file.columns}

\* PremiumRequestsAnalytics.__init__ and _load
PremConstruct(file) ==
    LET columns == PremColumns(file)
        kept == SelectSeq(file.rows, LAMBDA r : ~IsNA(ParsePeriod(r.request_date)))
    IN IF ~file.exists THEN Raise(PremErr, "Premium requests CSV not found", {})
       ELSE IF PremRequired \ columns # {}
       THEN Raise(PremErr, "Premium requests CSV missing required columns", PremRequired \ columns)
       ELSE Returned([kind |-> "premium",
                      data |-> [i \in 1..Len(kept) |-> PremRow(kept[i], columns)]])

\* A variant of _filter that ignores the user type.
PremFilterAnyUser(data, segment, user_type, period) ==
    SelectSeq(data, LAMBDA r :
        /\ Truthy(segment) => Casefold(r.segment) = Casefold(segment)
        /\ InPeriod(r.month, period))

\* _filter
PremFilter(data, segment, user_type, period) ==
    SelectSeq(data, LAMBDA r :
        /\ Truthy(segment) => Casefold(r.segment) = Casefold(segment)
        /\ user_type = "fte" => r.is_employee
        /\ user_type = "contractor" => ~r.is_employee
        /\ InPeriod(r.month, period))

\* _user_type_label
UserTypeLabel(user_type) ==
    IF user_type = "fte" THEN "FTE" ELSE IF user_type = "contractor" THEN "contractors" ELSE "all users"

\* _scope_label: the parts joined by a space.
PremScopeLabel(segment, user_type) ==
    LET parts == (IF Truthy(segment) THEN <<segment>> ELSE <<>>)
                 \o (IF user_type = "fte" THEN <<"FTE">>
                     ELSE IF user_type = "contractor" THEN <<"contractors">> ELSE <<>>)
    IN IF parts = <<>> THEN <<"all users">> ELSE parts

\* A variant that counts a group's rows with a user instead of its distinct users.
PremGroupsRowCount(df, key, names) ==
    [k \in 1..Len(names) |->
        LET rows == SelectSeq(df, LAMBDA r : r[key] = names[k]) IN
        [name |-> names[k],
         quantity |-> SeriesSum(Column(rows, "quantity")),
         net_amount |-> SeriesSum(Column(rows, "net_amount")),
         mfcgd_id |-> Len(SelectSeq(rows, LAMBDA r : r.mfcgd_id # NoneStr))]]

\* groupby(key) in key order with the sums and distinct users of each group.
PremGroups(df, key, names) ==
    [k \in 1..Len(names) |->
        LET rows == SelectSeq(df, LAMBDA r : r[key] = names[k]) IN
        [name |-> names[k],
         quantity |-> SeriesSum(Column(rows, "quantity")),
         net_amount |-> SeriesSum(Column(rows, "net_amount")),
         mfcgd_id |-> NUnique(rows, "mfcgd_id")]]

\* The branch of trend / top_segments taken for a metric: its name and column.
MetricBranch(metric) ==
    IF metric = "requests" THEN "requests" ELSE IF metric = "cost" THEN "cost" ELSE "users"
MetricName(branch) ==
    CASE branch = "requests" -> "requests" [] branch = "cost" -> "net cost" [] OTHER -> "unique users"
BranchValue(branch, g) ==
    CASE branch = "requests" -> g.quantity [] branch = "cost" -> g.net_amount [] OTHER -> g.mfcgd_id

\* PremiumRequestsAnalytics.summary
PremSummary(data, segment, user_type, start_month, end_month) ==
    LET nr == NormalizeRange(start_month, end_month, PremErr) IN
    IF nr.kind = "raise" THEN nr
    ELSE
    LET period == nr.value
        scoped == PremFilter(data, segment, user_type, period)
        exceeded_quota == Len(SelectSeq(scoped, LAMBDA r : r.exceeds_quota))
        models == PremGroups(scoped, "model",
                      SortedNames({scoped[i].model : i \in 1..Len(scoped)} \ {NoneStr}))
        top_models == DfHead(SortDesc([k \in 1..Len(models) |->
                          [name |-> models[k].name, key |-> Some(models[k].quantity)]]), 3)
    IN IF scoped = <<>> THEN Sentence("No premium request records match the requested scope.")
       ELSE Text("Premium request summary", PremScopeLabel(segment, user_type), Description(period),
            <<Line("Total requests", NoneStr, NoneStr, <<Shown(SeriesSum(Column(scoped, "quantity")))>>),
              Line("Unique users (by Entra ID)", NoneStr, NoneStr, <<Shown(NUnique(scoped, "mfcgd_id"))>>),
              Line("Gross cost", NoneStr, NoneStr, <<Shown(SeriesSum(Column(scoped, "gross_amount")))>>),
              Line("Discount (free quota)", NoneStr, NoneStr,
                   <<Shown(SeriesSum(Column(scoped, "discount_amount")))>>),
              Line("Net billable cost", NoneStr, NoneStr, <<Shown(SeriesSum(Column(scoped, "net_amount")))>>)>>
            \o (IF exceeded_quota > 0
                THEN <<Line("Requests exceeding quota", NoneStr, NoneStr, <<Shown(exceeded_quota)>>)>>
                ELSE <<>>)
            \o (IF top_models # <<>>
                THEN <<Line("Top models", NoneStr, NoneStr, <<>>)>>
                     \o [k \in 1..Len(top_models) |->
                            Line("model", top_models[k].name, NoneStr, <<Shown(Val(top_models[k].key))>>)]
                ELSE <<>>))

\* PremiumRequestsAnalytics.trend
PremTrend(data, segment, user_type, metric, start_month, end_month, limit) ==
    LET nr == NormalizeRange(start_month, end_month, PremErr) IN
    IF nr.kind = "raise" THEN nr
    ELSE
    LET period == nr.value
        scoped == PremFilter(data, segment, user_type, period)
        branch == MetricBranch(metric)
        months == SortedInts({scoped[i].month : i \in 1..Len(scoped)})
        monthly == DfTail(PremGroups(scoped, "month", months), limit)
    IN IF scoped = <<>> THEN Sentence("No premium request records match the requested scope.")
       ELSE Text(MetricName(branch), PremScopeLabel(segment, user_type), Description(period),
                 [k \in 1..Len(monthly) |->
                     Line("month", NoneStr, Strftime(monthly[k].name),
                          <<Shown(BranchValue(branch, monthly[k]))>>)])

\* PremiumRequestsAnalytics.top_segments
PremTopSegments(data, user_type, metric, start_month, end_month, limit) ==
    LET nr == NormalizeRange(start_month, end_month, PremErr) IN
    IF nr.kind = "raise" THEN nr
    ELSE
    LET period == nr.value
        scoped == PremFilter(data, NoneStr, user_type, period)
        branch == MetricBranch(metric)
        grouped == PremGroups(scoped, "segment", SortedNames({scoped[i].segment : i \in 1..Len(scoped)}))
        top == DfHead(SortDesc([k \in 1..Len(grouped) |->
                   [name |-> grouped[k].name, key |-> Some(BranchValue(branch, grouped[k]))]]), limit)
    IN IF scoped = <<>> THEN Sentence("No premium request records match the requested scope.")
       ELSE Text(MetricName(branch), <<UserTypeLabel(user_type)>>, Description(period),
                 [k \in 1..Len(top) |->
                     Line("segment", top[k].name, NoneStr, <<Shown(Val(top[k].key))>>)])

\* PremiumRequestsAnalytics.top_models
PremTopModels(data, segment, user_type, start_month, end_month, limit) ==
    LET nr == NormalizeRange(start_month, end_month, PremErr) IN
    IF nr.kind = "raise" THEN nr
    ELSE
    LET period == nr.value
        scoped == PremFilter(data, segment, user_type, period)
        models == PremGroups(scoped, "model",
                      SortedNames({scoped[i].model : i \in 1..Len(scoped)} \ {NoneStr}))
        model_stats == DfHead(SortDesc([k \in 1..Len(models) |->
                           [name |-> models[k].name, key |-> Some(models[k].net_amount),
                            quantity |-> models[k].quantity]]), limit)
    IN IF scoped = <<>> THEN Sentence("No premium request records match the requested scope.")
       ELSE Text("Top AI models by cost", PremScopeLabel(segment, user_type), Description(period),
                 [k \in 1..Len(model_stats) |->
                     Line("model", model_stats[k].name, NoneStr,
                          <<Shown(model_stats[k].quantity), Shown(Val(model_stats[k].key))>>)])

\* The label of an enterprise in enterprise_breakdown.
EnterpriseLabel(enterprise) ==
    IF enterprise = "manulife" THEN "EMU (manulife)" ELSE "Legacy (manulife-financial)"

\* PremiumRequestsAnalytics.enterprise_breakdown
PremEnterpriseBreakdown(data, segment, user_type, start_month, end_month) ==
    LET nr == NormalizeRange(start_month, end_month, PremErr) IN
    IF nr.kind = "raise" THEN nr
    ELSE
    LET period == nr.value
        scoped == PremFilter(data, segment, user_type, period)
        enterprise_stats == PremGroups(scoped, "enterprise",
                                SortedNames({scoped[i].enterprise : i \in 1..Len(scoped)}))
    IN IF scoped = <<>> THEN Sentence("No premium request records match the requested scope.")
       ELSE Text("Enterprise breakdown", PremScopeLabel(segment, user_type), Description(period),
                 [k \in 1..Len(enterprise_stats) |->
                     Line(EnterpriseLabel(enterprise_stats[k].name), enterprise_stats[k].name, NoneStr,
                          <<Shown(enterprise_stats[k].quantity), Shown(enterprise_stats[k].net_amount),
                            Shown(enterprise_stats[k].mfcgd_id)>>)])

(***************************************************************************)
(* Queries on a constructed engine                                         *)
(***************************************************************************)
\* Arguments of a query; the fields an operation does not take are NoneStr / 0.
Args(scope, user_type, metric, start_month, end_month, limit) ==
    [scope |-> scope, user_type |-> user_type, metric |-> metric,
     start_month |-> start_month, end_month |-> end_month, limit |-> limit]

\* start_month / end_month pairs: absent, empty, unparsable, equal, ordered,
\* reversed, not-a-time.
RangeArgs ==
    {<<NoneStr, NoneStr>>, <<"", NoneStr>>, <<NoneStr, "">>, <<"bad", NoneStr>>, <<NoneStr, "bad">>,
     <<"bad", "2025-01">>, <<"2025-01", NoneStr>>, <<NoneStr, "2025-01">>, <<"2025-01", "2025-02">>,
     <<"2025-02-15", "2025-02">>, <<"2025-02-15", "2025-01">>, <<"2025-03", "2025-02">>,
     <<"NaT", NoneStr>>, <<"2025-01", "nan">>}
FewRanges == {<<NoneStr, NoneStr>>, <<"2025-02-15", NoneStr>>, <<NoneStr, "2025-01">>}
Limits == {0, 1, 2}

\* Files the segment engine is constructed from: FTE cells vary per row, the
\* non-FTE and billing cells per file.
SegFteRows ==
    [month : {"2025-01", "2025-02"}, segment : {"ASIA", "Canada"},
     fte : {<<Some(1), Some(2)>>, <<Some(1), Some(0)>>, <<Nothing, Some(2)>>}]
SegFileProfiles ==
    {[active_non_fte |-> Some(0), seats_non_fte |-> Some(0),
      billing_adoption_fte |-> Nothing, billing_adoption_non_fte |-> Nothing],
     [active_non_fte |-> Nothing, seats_non_fte |-> Some(0),
      billing_adoption_fte |-> Some(40000), billing_adoption_non_fte |-> Some(0)],
     [active_non_fte |-> Some(1), seats_non_fte |-> Some(2),
      billing_adoption_fte |-> Some(40000), billing_adoption_non_fte |-> Nothing]}
SegFileRow(b, prof) ==
    [month |-> b.month, segment |-> b.segment, active_fte |-> b.fte[1], seats_fte |-> b.fte[2],
     active_non_fte |-> prof.active_non_fte, seats_non_fte |-> prof.seats_non_fte,
     billing_adoption_fte |-> prof.billing_adoption_fte,
     billing_adoption_non_fte |-> prof.billing_adoption_non_fte]
SegFiles ==
    {[kind |-> "segment", exists |-> TRUE, columns |-> SegRequired \cup SegOptional,
      rows |-> [i \in 1..Len(base) |-> SegFileRow(base[i], prof)]] :
        base \in TablesOf(SegFteRows, 0, MaxRows), prof \in SegFileProfiles}

SegNameArgs == {"", "asia", "Canada", "US"}
SegScopeArgs ==
    {Args(NoneStr, NoneStr, NoneStr, r[1], r[2], 0) : r \in RangeArgs}
    \cup {Args(n, NoneStr, NoneStr, r[1], r[2], 0) : n \in SegNameArgs, r \in FewRanges}
SegTrendArgs ==
    {[a EXCEPT !.metric = "fte_adoption", !.limit = 2] : a \in SegScopeArgs}
    \cup {Args(n, NoneStr, m, NoneStr, NoneStr, l) :
            n \in {NoneStr}, m \in SegMetrics \cup {"bogus"}, l \in Limits}
SegLeadersArgs ==
    {Args(NoneStr, NoneStr, "fte_adoption", mo, NoneStr, 2) :
            mo \in {NoneStr, "", "bad", "NaT", "2025-01", "2025-02-15", "2025-03"}}
    \cup {Args(NoneStr, NoneStr, m, mo, NoneStr, l) :
            mo \in {NoneStr}, m \in SegMetrics \cup {"bogus"}, l \in Limits}

\* Files the developer usage engine is constructed from.
UsageRows ==
    [developer_id : {"d1"}, division : {"ASIA", "Canada"}, month : {"2025-01", "2025-02"}]
    \cup [developer_id : {"d2"}, division : {"ASIA"}, month : {"2025-01", "2025-02"}]
UsageFiles ==
    {[exists |-> TRUE, columns |-> UsageRequired, rows |-> t] : t \in TablesOf(UsageRows, 1, MaxRows)}
\* An interactions row: cells of columns the file does not have are missing.
InteractionCells(dev, month, division, model, request_count, lines_suggested, lines_accepted) ==
    [developer_id |-> dev, month |-> month, timestamp |-> NoneStr, division |-> division,
     model |-> model, request_count |-> request_count,
     lines_suggested |-> lines_suggested, lines_accepted |-> lines_accepted]
PlainInteractionRows ==
    {InteractionCells(d, m, NoneStr, NoneStr, Nothing, Nothing, Nothing) :
        d \in {"d1", "d2"}, m \in {"2025-01", "2025-02"}}
DivisionInteractionRows ==
    {InteractionCells("d1", "2025-01", "ASIA", NoneStr, Nothing, Nothing, Nothing),
     InteractionCells("d2", "2025-01", "Canada", NoneStr, Nothing, Nothing, Nothing)}
ModelInteractionRows ==
    {InteractionCells("d1", "2025-01", NoneStr, "gpt", Some(2), Some(4), Some(2)),
     InteractionCells("d1", "2025-02", NoneStr, "claude", Some(2), Some(0), Some(0)),
     InteractionCells("d2", "2025-01", NoneStr, "gpt", Some(0), Some(0), Some(0))}
InteractionFiles ==
    {[exists |-> TRUE, columns |-> {"developer_id", "month"}, rows |-> t] :
        t \in TablesOf(PlainInteractionRows, 1, MaxRows)}
    \cup {[exists |-> TRUE, columns |-> {"developer_id", "month", "division"}, rows |-> t] :
        t \in TablesOf(DivisionInteractionRows, 1, MaxRows)}
    \cup {[exists |-> TRUE,
           columns |-> {"developer_id", "month", "model", "request_count", "lines_suggested", "lines_accepted"},
           rows |-> t] : t \in TablesOf(ModelInteractionRows, 1, MaxRows)}

DivisionArgs == {"", "asia", "Canada", "US"}
UsageScopeArgs ==
    {Args(NoneStr, NoneStr, NoneStr, r[1], r[2], 0) : r \in RangeArgs}
    \cup {Args(n, NoneStr, NoneStr, r[1], r[2], 0) : n \in DivisionArgs, r \in FewRanges}
UsageLimitArgs ==
    {[a EXCEPT !.limit = 2] : a \in UsageScopeArgs}
    \cup {Args(n, NoneStr, NoneStr, NoneStr, NoneStr, l) : n \in {NoneStr, "asia"}, l \in Limits}
BreakdownArgs ==
    {Args(NoneStr, NoneStr, NoneStr, r[1], r[2], 2) : r \in RangeArgs}
    \cup {Args(NoneStr, NoneStr, NoneStr, NoneStr, NoneStr, l) : l \in Limits}

InitUsage ==
    /\ \E u \in UsageFiles, i \in InteractionFiles :
         /\ csv = [kind |-> "usage", usage |-> u, interactions |-> i]
         /\ engine = UsageConstruct(csv).value
    /\ out = Nothing
    /\ holder = HolderInit
    /\ calls = [g \in Getters |-> <<>>]
    /\ thr = ThreadsIdle

\* Files the premium requests engine is constructed from.
PremCells(date, user, enterprise, model, quantity, gross, discount, net, segment, employee, exceeds) ==
    [request_date |-> date, mfcgd_id |-> user, enterprise |-> enterprise, model |-> model,
     quantity |-> quantity, gross_amount |-> gross, discount_amount |-> discount, net_amount |-> net,
     segment |-> segment, is_employee |-> employee, exceeds_quota |-> exceeds]
PremFileRows ==
    {PremCells("2025-01", "u1", "manulife", "gpt", Some(2), Some(300), Some(100), Some(200), "ASIA", "TRUE", "TRUE"),
     PremCells("2025-01", "u1", "manulife-financial", "claude", Some(1), Some(100), Some(100), Some(0), "ASIA", "true", "FALSE"),
     PremCells("2025-02-15", "u2", "manulife", "gpt", Some(3), Some(100), Some(0), Some(100), "Canada", "FALSE", "FALSE"),
     PremCells("2025-02", "u2", NoneStr, "claude", Nothing, Nothing, Nothing, Nothing, NoneStr, "yes", NoneStr),
     PremCells("2025-01", "u2", "manulife", "claude", Some(1), Some(200), Some(0), Some(200), "Canada", "TRUE", "FALSE"),
     PremCells("2025-02", NoneStr, "manulife-financial", "gpt", Some(2), Some(50), Some(0), Some(50), "ASIA", "no", "1"),
     PremCells("bad", "u1", "manulife", "gpt", Some(1), Some(10), Some(0), Some(10), "ASIA", "TRUE", "FALSE")}
PremFiles ==
    {[kind |-> "premium", exists |-> TRUE, columns |-> PremRequired \cup x, rows |-> t] :
        t \in TablesOf(PremFileRows, 0, MaxRows), x \in {{}, {"exceeds_quota"}}}

PremScopeArgs ==
    {Args(NoneStr, "all", NoneStr, r[1], r[2], 0) : r \in RangeArgs}
    \cup {Args(n, u, NoneStr, NoneStr, NoneStr, 0) : n \in SegNameArgs \cup {NoneStr}, u \in UserTypes \cup {"bogus"}}
PremTrendArgs ==
    {[a EXCEPT !.metric = "requests", !.limit = 2] : a \in PremScopeArgs}
    \cup {Args(NoneStr, u, m, NoneStr, NoneStr, l) :
            u \in {"all", "fte"}, m \in PremMetrics \cup {"bogus"}, l \in Limits}
PremTopSegmentsArgs ==
    {[a EXCEPT !.metric = "cost", !.limit = 2] : a \in {b \in PremScopeArgs : b.scope = NoneStr}}
    \cup {Args(NoneStr, u, m, NoneStr, NoneStr, l) :
            u \in {"all", "fte"}, m \in PremMetrics \cup {"bogus"}, l \in Limits}
PremTopModelsArgs ==
    {[a EXCEPT !.limit = 2] : a \in PremScopeArgs}
    \cup {Args(NoneStr, "all", NoneStr, NoneStr, NoneStr, l) : l \in Limits}

InitPremium ==
    /\ \E f \in PremFiles : csv = f /\ engine = PremConstruct(f).value
    /\ out = Nothing
    /\ holder = HolderInit
    /\ calls = [g \in Getters |-> <<>>]
    /\ thr = ThreadsIdle

InitSegment ==
    /\ \E f \in SegFiles : csv = f /\ engine = SegConstruct(f).value
    /\ out = Nothing
    /\ holder = HolderInit
    /\ calls = [g \in Getters |-> <<>>]
    /\ thr = ThreadsIdle

\* A variant of a query that trims the engine's own table in place.
AnswerInPlace(op, a, res) ==
    /\ out = Nothing
    /\ out' = Some([op |-> op, args |-> a, res |-> res])
    /\ engine' = IF engine.kind = "usage"
                 THEN [engine EXCEPT !.interactions = DfHead(@, 1)]
                 ELSE [engine EXCEPT !.data = DfHead(@, 1)]
    /\ UNCHANGED <<holder, calls, thr, csv>>

\* A query runs when no result is pending; its text goes to the caller.
Answer(op, a, res) ==
    /\ out = Nothing
    /\ out' = Some([op |-> op, args |-> a, res |-> res])
    /\ UNCHANGED <<holder, calls, thr, csv, engine>>

SegmentSummary ==
    /\ engine.kind = "segment"
    /\ \E a \in SegScopeArgs :
         Answer("segment.summary", a, SegSummary(engine.data, a.scope, a.start_month, a.end_month))

SegmentTrend ==
    /\ engine.kind = "segment"
    /\ \E a \in SegTrendArgs :
         Answer("segment.trend", a,
                SegTrend(engine.data, a.scope, a.metric, a.start_month, a.end_month, a.limit))

SegmentLeaders ==
    /\ engine.kind = "segment"
    /\ \E a \in SegLeadersArgs :
         Answer("segment.leaders", a, SegLeaders(engine.data, a.start_month, a.metric, a.limit))

UsageSummary ==
    /\ engine.kind = "usage"
    /\ \E a \in UsageScopeArgs :
         Answer("usage.summarize_usage", a, SummarizeUsage(engine, a.scope, a.start_month, a.end_month))

UsageAdoptionTrend ==
    /\ engine.kind = "usage"
    /\ \E a \in UsageLimitArgs :
         Answer("usage.adoption_trend", a,
                AdoptionTrend(engine, a.scope, a.start_month, a.end_month, a.limit))

UsageModelMix ==
    /\ engine.kind = "usage"
    /\ \E a \in UsageLimitArgs :
         Answer("usage.model_mix", a, ModelMix(engine, a.scope, a.start_month, a.end_month, a.limit))

UsageDivisionBreakdown ==
    /\ engine.kind = "usage"
    /\ \E a \in BreakdownArgs :
         Answer("usage.division_breakdown", a,
                DivisionBreakdown(engine, a.start_month, a.end_month, a.limit))

PremiumSummary ==
    /\ engine.kind = "premium"
    /\ \E a \in PremScopeArgs :
         Answer("premium.summary", a,
                PremSummary(engine.data, a.scope, a.user_type, a.start_month, a.end_month))

PremiumTrend ==
    /\ engine.kind = "premium"
    /\ \E a \in PremTrendArgs :
         Answer("premium.trend", a,
                PremTrend(engine.data, a.scope, a.user_type, a.metric, a.start_month, a.end_month, a.limit))

PremiumTopSegments ==
    /\ engine.kind = "premium"
    /\ \E a \in PremTopSegmentsArgs :
         Answer("premium.top_segments", a,
                PremTopSegments(engine.data, a.user_type, a.metric, a.start_month, a.end_month, a.limit))

PremiumTopModels ==
    /\ engine.kind = "premium"
    /\ \E a \in PremTopModelsArgs :
         Answer("premium.top_models", a,
                PremTopModels(engine.data, a.scope, a.user_type, a.start_month, a.end_month, a.limit))

PremiumEnterpriseBreakdown ==
    /\ engine.kind = "premium"
    /\ \E a \in PremScopeArgs :
         Answer("premium.enterprise_breakdown", a,
                PremEnterpriseBreakdown(engine.data, a.scope, a.user_type, a.start_month, a.end_month))

\* The caller takes the result; the engine is ready for the next query.
Consume ==
    /\ out # Nothing
    /\ out' = Nothing
    /\ UNCHANGED <<holder, calls, thr, csv, engine>>

Init == InitSegment \/ InitUsage \/ InitPremium

Next ==
    \/ SegmentSummary
    \/ SegmentTrend
    \/ SegmentLeaders
    \/ UsageSummary
    \/ UsageAdoptionTrend
    \/ UsageModelMix
    \/ UsageDivisionBreakdown
    \/ PremiumSummary
    \/ PremiumTrend
    \/ PremiumTopSegments
    \/ PremiumTopModels
    \/ PremiumEnterpriseBreakdown
    \/ Consume

Spec == Init /\ [][Next]_vars

(***************************************************************************)
(* Construction of an engine from its files                                *)
(***************************************************************************)
\* Column sets of a file: a base set with each combination of columns removed
\* (a file keeps at least its "notes" column: one without a header cannot be read).
Without(base, removable) == {base \ m : m \in SUBSET removable}

SegLoadRows ==
    {SegFileRow([month |-> m, segment |-> s, fte |-> <<Some(1), Some(2)>>],
                [active_non_fte |-> Nothing, seats_non_fte |-> Some(2),
                 billing_adoption_fte |-> Some(40000), billing_adoption_non_fte |-> Some(0)]) :
        m \in {"2025-01", "bad"}, s \in {"ASIA", NoneStr}}
SegLoadFiles ==
    {[kind |-> "segment", exists |-> x, columns |-> c, rows |-> t] :
        x \in BOOLEAN, t \in TablesOf(SegLoadRows, 0, MaxRows),
        c \in Without(SegRequired \cup SegOptional \cup {"notes"}, SegRequired \cup SegOptional)
              \cup {{"month", "segment", "Active Users FTE", "total_seats_fte", "Total Seats NonFTE",
                     "active_users_nonfte", "billing_adoption_fte"}}}

UsageLoadRows ==
    {[developer_id |-> "d1", division |-> "ASIA", month |-> "2025-01"],
     [developer_id |-> "d2", division |-> NoneStr, month |-> "2025-02-15"],
     [developer_id |-> "d1", division |-> "Canada", month |-> "bad"]}
InteractionLoadRows ==
    {[InteractionCells("d1", "2025-01", "ASIA", "gpt", Some(2), Nothing, Nothing) EXCEPT !.timestamp = "2025-02-15"],
     [InteractionCells("d2", "bad", NoneStr, "claude", Nothing, Nothing, Nothing) EXCEPT !.timestamp = "bad"],
     [InteractionCells("d3", "2025-02", "Canada", NoneStr, Some(1), Nothing, Nothing) EXCEPT !.timestamp = "2025-01"]}
GoodUsageFile ==
    [exists |-> TRUE, columns |-> UsageRequired,
     rows |-> <<[developer_id |-> "d1", division |-> "ASIA", month |-> "2025-01"],
                [developer_id |-> "d1", division |-> "Canada", month |-> "2025-01"]>>]
GoodInteractionsFile ==
    [exists |-> TRUE, columns |-> {"developer_id", "month"},
     rows |-> <<InteractionCells("d1", "2025-01", NoneStr, NoneStr, Nothing, Nothing, Nothing)>>]
UsageLoadFiles ==
    {[kind |-> "usage", usage |-> [exists |-> x, columns |-> c, rows |-> t],
      interactions |-> GoodInteractionsFile] :
        x \in BOOLEAN, c \in Without(UsageRequired \cup {"notes"}, UsageRequired), t \in TablesOf(UsageLoadRows, 0, MaxRows)}
    \cup
    {[kind |-> "usage", usage |-> GoodUsageFile,
      interactions |-> [exists |-> x, columns |-> c, rows |-> t]] :
        x \in BOOLEAN, t \in TablesOf(InteractionLoadRows, 0, MaxRows),
        c \in Without({"developer_id", "month", "timestamp", "division", "model", "request_count", "notes"},
                      {"developer_id", "month", "timestamp", "division", "model", "request_count"})}

PremLoadFiles ==
    {[kind |-> "premium", exists |-> x, columns |-> c, rows |-> t] :
        x \in BOOLEAN, t \in TablesOf(PremFileRows, 0, 1),
        c \in Without(PremRequired \cup {"exceeds_quota"},
                      {"request_date", "mfcgd_id", "quantity", "segment", "is_employee", "exceeds_quota"})
              \cup {(PremRequired \ {"request_date", "segment", "mfcgd_id"})
                        \cup {"Request Date", " Segment ", "MFCGD_ID"}}}

NoArgs == Args(NoneStr, NoneStr, NoneStr, NoneStr, NoneStr, 0)
NotLoaded == [kind |-> "none"]

InitLoad ==
    /\ csv \in SegLoadFiles \cup UsageLoadFiles \cup PremLoadFiles
    /\ engine = NotLoaded
    /\ out = Nothing
    /\ holder = HolderInit
    /\ calls = [g \in Getters |-> <<>>]
    /\ thr = ThreadsIdle

\* A constructor call: the engine is kept when it returns, its exception goes to the caller.
Loaded(op, res) ==
    /\ engine = NotLoaded
    /\ out = Nothing
    /\ out' = Some([op |-> op, args |-> NoArgs, res |-> res])
    /\ engine' = IF res.kind = "return" THEN res.value ELSE [kind |-> "failed"]
    /\ UNCHANGED <<holder, calls, thr, csv>>

LoadSegment == csv.kind = "segment" /\ Loaded("segment.load", SegConstruct(csv))
LoadUsage == csv.kind = "usage" /\ Loaded("usage.load", UsageConstruct(csv))
LoadPremium == csv.kind = "premium" /\ Loaded("premium.load", PremConstruct(csv))

NextLoad ==
    \/ LoadSegment
    \/ LoadUsage
    \/ LoadPremium

SpecLoad == InitLoad /\ [][NextLoad]_vars

(***************************************************************************)
(* Claims about the lazy holders                                           *)
(***************************************************************************)

\* C1: sticky failure. In any sequence of calls of one getter, once a call has
\* failed while constructing the engine, every later call raises that same
\* captured exception object and does not run the constructor again.
C1_StickyFailure ==
    \A g \in Getters : \A i, j \in 1..Len(calls[g]) :
        (i < j /\ calls[g][i].kind = "raise" /\ calls[g][i].constructed)
            => /\ calls[g][j].kind = "raise"
               /\ calls[g][j].value = calls[g][i].value
               /\ ~calls[g][j].constructed

\* A getter whose first call failed in the constructor and that was called again.
C1_Witness ==
    \E g \in Getters :
        /\ Len(calls[g]) >= 2
        /\ calls[g][1].kind = "raise" /\ calls[g][1].constructed
        /\ calls[g][2].kind = "raise"

\* C2: with concurrent callers the constructor of a getter runs at most once
\* and all finished callers of that getter hold the same engine or the same
\* error.
C2_ConstructOnce ==
    \A g \in Getters :
        /\ holder[g].ctorCalls <= 1
        /\ \A t, u \in Threads :
              (thr[t].pc = "done" /\ thr[u].pc = "done" /\ thr[t].getter = g /\ thr[u].getter = g)
                  => thr[t].ret = thr[u].ret

(***************************************************************************)
(* Claims about the engines' queries                                       *)
(***************************************************************************)
\* The pending result of a query, when there is one.
Pending == out # Nothing
Op == Val(out).op
Arg == Val(out).args
Res == Val(out).res
SegOps == {"segment.summary", "segment.trend", "segment.leaders"}
UsageOps == {"usage.summarize_usage", "usage.adoption_trend", "usage.model_mix", "usage.division_breakdown"}
PremOps == {"premium.summary", "premium.trend", "premium.top_segments", "premium.top_models",
            "premium.enterprise_breakdown"}
\* The configuration error of the engine an operation belongs to.
ConfigErrorOf(op) ==
    IF op \in SegOps THEN SegErr ELSE IF op \in UsageOps THEN UsageErr ELSE PremErr

\* C3: safe-percentage invariant of the segment engine. In the loaded table a
\* row with seats <= 0, missing seats or a missing numerator has an undefined
\* utilisation percentage, and no line of the text returned by summary, trend
\* or leaders shows "nan" or "inf" as a value, the 'Highest FTE coverage' line
\* of summary included.
C3_NoNanInOutput ==
    /\ engine.kind = "segment" =>
         \A i \in 1..Len(engine.data) :
            LET r == engine.data[i] IN
            /\ (IsNA(r.seats_fte) \/ IsNA(r.active_fte) \/ Val(r.seats_fte) <= 0)
                  => IsNA(r.fte_utilisation_pct)
            /\ (Val(r.seats_non_fte) <= 0) => IsNA(r.non_fte_utilisation_pct)
    /\ (Pending /\ Op \in SegOps /\ Res.kind = "text") =>
         \A i \in 1..Len(Res.lines) : \A j \in 1..Len(Res.lines[i].vals) :
            Res.lines[i].vals[j].txt \notin {"nan", "inf"}

\* C4: the adoption rate reported by summarize_usage, and by every line of
\* adoption_trend and division_breakdown, lies between 0.0 and 100.0.
C4_AdoptionRateBounded ==
    (Pending /\ Res.kind = "text") =>
        /\ Op = "usage.summarize_usage" =>
             Res.lines[1].vals[3].txt = "num" /\ Res.lines[1].vals[3].n \in 0..1000
        /\ Op = "usage.adoption_trend" =>
             \A i \in 1..Len(Res.lines) :
                Res.lines[i].vals[1].txt = "num" /\ Res.lines[i].vals[1].n \in 0..1000
        /\ Op = "usage.division_breakdown" =>
             \A i \in 1..Len(Res.lines) :
                Res.lines[i].vals[2].txt = "num" /\ Res.lines[i].vals[2].n \in 0..1000

\* C5: when the month range is valid and the usage table has no developer in
\* the requested division, summarize_usage returns the 'No developers found'
\* sentence: it neither raises nor reports a rate.
C5_NoDevelopersFound ==
    (/\ Pending
     /\ Op = "usage.summarize_usage"
     /\ NormalizeRange(Arg.start_month, Arg.end_month, UsageErr).kind = "return"
     /\ Truthy(Arg.scope)
     /\ \A i \in 1..Len(engine.developer_usage) :
           Casefold(engine.developer_usage[i].division) # Casefold(Arg.scope))
        => Res = Sentence("No developers found for the specified division. Verify the COPILOT_USAGE_CSV content.")
C5_Witness ==
    /\ Pending
    /\ Op = "usage.summarize_usage"
    /\ Arg.scope = "US"
    /\ Arg.start_month = "2025-02-15"
    /\ Res.kind = "sentence"

\* C6: an operation given an unrecognised metric or user_type returns what it
\* returns for its default (segment trend and leaders: fte_adoption, premium
\* trend: requests, premium top_segments: cost, user_type: all) and does not fail.
C6_InvalidEnumAsDefault ==
    Pending =>
        /\ (Op = "segment.trend" /\ Arg.metric \notin SegMetrics) =>
             Res = SegTrend(engine.data, Arg.scope, "fte_adoption", Arg.start_month, Arg.end_month, Arg.limit)
        /\ (Op = "segment.leaders" /\ Arg.metric \notin SegMetrics) =>
             Res = SegLeaders(engine.data, Arg.start_month, "fte_adoption", Arg.limit)
        /\ (Op = "premium.trend" /\ Arg.metric \notin PremMetrics) =>
             Res = PremTrend(engine.data, Arg.scope, Arg.user_type, "requests",
                             Arg.start_month, Arg.end_month, Arg.limit)
        /\ (Op = "premium.top_segments" /\ Arg.metric \notin PremMetrics) =>
             Res = PremTopSegments(engine.data, Arg.user_type, "cost",
                                   Arg.start_month, Arg.end_month, Arg.limit)
        /\ (Op = "premium.summary" /\ Arg.user_type \notin UserTypes) =>
             Res = PremSummary(engine.data, Arg.scope, "all", Arg.start_month, Arg.end_month)
        /\ (Op \in {"segment.trend", "segment.leaders", "premium.trend", "premium.top_segments",
                    "premium.summary"}
            /\ Arg.start_month = NoneStr /\ Arg.end_month = NoneStr) => Res.kind # "raise"

\* C7: premium trend with a metric outside {requests, cost, users} and premium
\* summary with a user_type outside {fte, contractor, all} raise the
\* configuration error instead of returning a result.
C7_InvalidEnumRaises ==
    (/\ Pending
     /\ \/ Op = "premium.trend" /\ Arg.metric \notin PremMetrics
        \/ Op = "premium.summary" /\ Arg.user_type \notin UserTypes)
        => Res.kind = "raise" /\ Res.exc \in {PremErr, "AnalyticsConfigError"}

\* A month argument that is given and does not parse.
Unparsable(month) == month # NoneStr /\ IsNA(ParsePeriod(month))
\* Both months parse and the start is after the end.
Reversed(start_month, end_month) ==
    /\ ~IsNA(ParsePeriod(start_month)) /\ ~IsNA(ParsePeriod(end_month))
    /\ Val(ParsePeriod(start_month)) > Val(ParsePeriod(end_month))
RaisesConfigError == Res.kind = "raise" /\ Res.exc = ConfigErrorOf(Op)

C9_OptionalColumnsOptional ==
    (Pending /\ Op = "segment.load" /\ csv.exists /\ SegRequired \subseteq SegColumns(csv)) =>
        /\ Res.kind = "return"
        /\ \A i \in 1..Len(engine.data) :
              /\ "active_non_fte" \notin SegColumns(csv) => engine.data[i].active_non_fte = Some(0)
              /\ "seats_non_fte" \notin SegColumns(csv) => engine.data[i].seats_non_fte = Some(0)
              /\ "billing_adoption_fte" \notin SegColumns(csv) => IsNA(engine.data[i].billing_adoption_fte)
              /\ "billing_adoption_non_fte" \notin SegColumns(csv)
                    => IsNA(engine.data[i].billing_adoption_non_fte)

\* The required columns an interactions file lacks: developer_id, and month and
\* timestamp when it has neither.
InteractionsMissing(file) ==
    ({"developer_id"} \ file.columns)
    \cup (IF {"month", "timestamp"} \cap file.columns = {} THEN {"month", "timestamp"} ELSE {})

\* C10: a loader given an existing file that lacks required columns fails with
\* its configuration error, and the error names every missing required column.
\* The interactions file requires developer_id and one of month / timestamp.
C10_MissingColumnsNamed ==
    Pending =>
        /\ (Op = "segment.load" /\ csv.exists /\ SegRequired \ SegColumns(csv) # {}) =>
             Res.kind = "raise" /\ Res.exc = SegErr /\ SegRequired \ SegColumns(csv) \subseteq Res.missing
        /\ (Op = "premium.load" /\ csv.exists /\ PremRequired \ PremColumns(csv) # {}) =>
             Res.kind = "raise" /\ Res.exc = PremErr /\ PremRequired \ PremColumns(csv) \subseteq Res.missing
        /\ (Op = "usage.load" /\ csv.usage.exists /\ UsageRequired \ csv.usage.columns # {}) =>
             Res.kind = "raise" /\ Res.exc = UsageErr /\ UsageRequired \ csv.usage.columns \subseteq Res.missing
        /\ (Op = "usage.load" /\ csv.usage.exists /\ csv.interactions.exists
            /\ LoadDeveloperUsage(csv.usage).kind = "return"
            /\ InteractionsMissing(csv.interactions) # {}) =>
             Res.kind = "raise" /\ Res.exc = UsageErr /\ InteractionsMissing(csv.interactions) \subseteq Res.missing

\* The rows of a file whose month / date cell parses.
ParsableRows(rows, column) == SelectSeq(rows, LAMBDA r : ~IsNA(ParsePeriod(r[column])))
\* The temporal column the interactions loader reads.
TemporalColumn(file) == IF "month" \in file.columns THEN "month" ELSE "timestamp"
\* A segment / premium file that has every column its loader reads.
SegComplete(file) == file.exists /\ (SegRequired \cup SegOptional) \subseteq SegColumns(file)
PremComplete(file) == file.exists /\ PremRequired \subseteq PremColumns(file)
UsageComplete(file) == file.exists /\ UsageRequired \subseteq file.columns
InteractionsComplete(file) ==
    file.exists /\ "developer_id" \in file.columns /\ {"month", "timestamp"} \cap file.columns # {}

\* C11: for each of the four loaders, a file with rows of which none has a
\* parsable month / date makes construction fail with the loader's
\* configuration error, and a file of which some rows parse loads with exactly
\* the unparsable rows dropped.
C11_AllUnparsableFails ==
    Pending =>
        /\ (Op = "segment.load" /\ SegComplete(csv) /\ csv.rows # <<>>) =>
             IF ParsableRows(csv.rows, "month") = <<>>
             THEN Res.kind = "raise" /\ Res.exc = SegErr
             ELSE Res.kind = "return"
                  /\ Len(engine.data) = Len(SelectSeq(ParsableRows(csv.rows, "month"),
                                                      LAMBDA r : r.segment # NoneStr))
        /\ (Op = "premium.load" /\ PremComplete(csv) /\ csv.rows # <<>>) =>
             IF ParsableRows(csv.rows, "request_date") = <<>>
             THEN Res.kind = "raise" /\ Res.exc = PremErr
             ELSE Res.kind = "return"
                  /\ Len(engine.data) = Len(ParsableRows(csv.rows, "request_date"))
        /\ (Op = "usage.load" /\ UsageComplete(csv.usage) /\ csv.usage.rows # <<>>
            /\ csv.interactions = GoodInteractionsFile) =>
             IF ParsableRows(csv.usage.rows, "month") = <<>>
             THEN Res.kind = "raise" /\ Res.exc = UsageErr
             ELSE Res.kind = "return"
                  /\ Len(engine.developer_usage) = Len(ParsableRows(csv.usage.rows, "month"))
        /\ (Op = "usage.load" /\ csv.usage = GoodUsageFile /\ InteractionsComplete(csv.interactions)
            /\ csv.interactions.rows # <<>> /\ "division" \in csv.interactions.columns) =>
             IF ParsableRows(csv.interactions.rows, TemporalColumn(csv.interactions)) = <<>>
             THEN Res.kind = "raise" /\ Res.exc = UsageErr
             ELSE Res.kind = "return"
                  /\ Len(engine.interactions)
                       = Len(ParsableRows(csv.interactions.rows, TemporalColumn(csv.interactions)))

\* What an operation returns for given arguments on a given engine.
ResultOf(op, a, e) ==
    CASE op = "segment.summary" -> SegSummary(e.data, a.scope, a.start_month, a.end_month)
      [] op = "segment.trend" -> SegTrend(e.data, a.scope, a.metric, a.start_month, a.end_month, a.limit)
      [] op = "segment.leaders" -> SegLeaders(e.data, a.start_month, a.metric, a.limit)
      [] op = "usage.summarize_usage" -> SummarizeUsage(e, a.scope, a.start_month, a.end_month)
      [] op = "usage.adoption_trend" -> AdoptionTrend(e, a.scope, a.start_month, a.end_month, a.limit)
      [] op = "usage.model_mix" -> ModelMix(e, a.scope, a.start_month, a.end_month, a.limit)
      [] op = "usage.division_breakdown" -> DivisionBreakdown(e, a.start_month, a.end_month, a.limit)
      [] op = "premium.summary" -> PremSummary(e.data, a.scope, a.user_type, a.start_month, a.end_month)
      [] op = "premium.trend" ->
            PremTrend(e.data, a.scope, a.user_type, a.metric, a.start_month, a.end_month, a.limit)
      [] op = "premium.top_segments" ->
            PremTopSegments(e.data, a.user_type, a.metric, a.start_month, a.end_month, a.limit)
      [] op = "premium.top_models" ->
            PremTopModels(e.data, a.scope, a.user_type, a.start_month, a.end_month, a.limit)
      [] op = "premium.enterprise_breakdown" ->
            PremEnterpriseBreakdown(e.data, a.scope, a.user_type, a.start_month, a.end_month)

ValidMonth(month) == month = NoneStr \/ ~IsNA(ParsePeriod(month))
ValidRange(start_month, end_month) ==
    ValidMonth(start_month) /\ ValidMonth(end_month) /\ ~Reversed(start_month, end_month)
\* The arguments of the pending call are all valid for its operation.
ValidFilters ==
    /\ ValidRange(Arg.start_month, Arg.end_month)
    /\ Op \in PremOps => Arg.user_type \in UserTypes
    /\ Op \in {"segment.trend", "segment.leaders"} => Arg.metric \in SegMetrics
    /\ Op \in {"premium.trend", "premium.top_segments"} => Arg.metric \in PremMetrics
\* The rows of the engine's table that the filters of the pending call select.
RangeOf(a) == NormalizeRange(a.start_month, a.end_month, "").value
SelectedRows(op, a, e) ==
    CASE op \in {"segment.summary", "segment.trend"} -> SegFilter(e.data, a.scope, RangeOf(a))
      [] op = "segment.leaders" ->
            IF ~Truthy(a.start_month) THEN e.data
            ELSE SelectSeq(e.data, LAMBDA r : r.month = Val(ParsePeriod(a.start_month)))
      [] op \in {"usage.summarize_usage", "usage.adoption_trend", "usage.model_mix"} ->
            FilterInteractions(e, a.scope, RangeOf(a))
      [] op = "usage.division_breakdown" -> FilterInteractions(e, NoneStr, RangeOf(a))
      [] op \in {"premium.summary", "premium.trend", "premium.top_models", "premium.enterprise_breakdown"} ->
            PremFilter(e.data, a.scope, a.user_type, RangeOf(a))
      [] op = "premium.top_segments" -> PremFilter(e.data, NoneStr, a.user_type, RangeOf(a))

\* C13: in every query operation of the three engines, valid filters
\* (division or segment, user type, month range) that select zero rows give
\* the operation's empty-result sentence, never a report and never an error.
C13_EmptySelectionSentence ==
    (Pending /\ ValidFilters /\ SelectedRows(Op, Arg, engine) = <<>>) => Res.kind = "sentence"

\* The number a ranking line is ranked by, as rendered.
RankOps == {"premium.top_segments", "premium.top_models", "segment.leaders"}
RankShown(op, line) == IF op = "premium.top_models" THEN line.vals[2].n ELSE line.vals[1].n

\* C14: ranking invariant. Every list rendered by premium top_segments,
\* premium top_models and segment leaders with limit N >= 0 has at most N
\* entries, in descending order of the ranking metric.
C14_RankingDescending ==
    (Pending /\ Op \in RankOps /\ Res.kind = "text") =>
        /\ Len(Res.lines) <= Arg.limit
        /\ \A k \in 1..(Len(Res.lines) - 1) :
              RankShown(Op, Res.lines[k]) >= RankShown(Op, Res.lines[k + 1])
C14_Witness ==
    /\ Pending /\ Op = "premium.top_segments" /\ Res.kind = "text"
    /\ Arg.limit = 1 /\ Len(Res.lines) = 1
    /\ \E i \in 1..Len(SelectedRows(Op, Arg, engine)) :
          LET r == SelectedRows(Op, Arg, engine)[i] IN
          /\ r.segment # Res.lines[1].name
          /\ SortedNames({r.segment, Res.lines[1].name})[1] = r.segment

\* The distinct months of the rows in scope of the pending call, ascending.
MonthsInScope == SortedInts({SelectedRows(Op, Arg, engine)[i].month :
                                i \in 1..Len(SelectedRows(Op, Arg, engine))})
Min(a, b) == IF a < b THEN a ELSE b

\* C15: a segment or premium trend with limit N >= 1 over a scope spanning M
\* distinct months has exactly min(N, M) month lines, for the latest months
\* in scope, in ascending order (with N = 1 the single line is the latest month).
C15_TrendLatestMonths ==
    (Pending /\ Op \in {"segment.trend", "premium.trend"} /\ Res.kind = "text" /\ Arg.limit >= 1) =>
        LET M == Len(MonthsInScope)
            n == Min(Arg.limit, M)
        IN /\ Len(Res.lines) = n
           /\ \A k \in 1..n : Res.lines[k].month = Strftime(MonthsInScope[M - n + k])
C15_Witness ==
    /\ Pending /\ Op \in {"segment.trend", "premium.trend"} /\ Res.kind = "text"
    /\ Arg.limit = 1 /\ Len(MonthsInScope) = 2
    /\ Len(Res.lines) = 1 /\ Res.lines[1].month = Strftime(MonthsInScope[2])

\* The usage months of a division (of all divisions without one) up to a month.
SnapshotMonthsUpTo(e, division, month) ==
    {e.developer_usage[i].month : i \in {j \in 1..Len(e.developer_usage) :
        /\ Truthy(division) => Casefold(e.developer_usage[j].division) = Casefold(division)
        /\ e.developer_usage[j].month <= month}}
MaxOf(S) == CHOOSE x \in S : \A y \in S : y <= x

\* C16: in adoption_trend every month with interactions in scope is reported
\* with the population of the most recent usage snapshot of the division at or
\* before that month, whether or not that snapshot's month has interactions
\* in scope; only months with no own or earlier snapshot are left out.
C16_ForwardFillFromSnapshots ==
    (/\ Pending /\ Op = "usage.adoption_trend" /\ ValidFilters
     /\ Res.kind \in {"text", "sentence"}
     /\ SelectedRows(Op, Arg, engine) # <<>>
     /\ Arg.limit >= Len(MonthsInScope)) =>
        LET covered == SelectSeq(MonthsInScope,
                           LAMBDA m : SnapshotMonthsUpTo(engine, Arg.scope, m) # {})
        IN /\ Len(Res.lines) = Len(covered)
           /\ \A k \in 1..Len(covered) :
                 /\ Res.lines[k].month = Strftime(covered[k])
                 /\ Res.lines[k].vals[3] =
                       Shown(Val(PopulationByMonth(engine, Arg.scope,
                                    MaxOf(SnapshotMonthsUpTo(engine, Arg.scope, covered[k])))))

\* The figures of the pending enterprise breakdown, added over its lines.
BreakdownSum(col) == SumSeq([k \in 1..Len(Res.lines) |-> Res.lines[k].vals[col].n])
ScopeRows == SelectedRows(Op, Arg, engine)
EnterprisesInScope == {ScopeRows[i].enterprise : i \in 1..Len(ScopeRows)}
\* The distinct (enterprise, user) pairs in scope; rows without a user are not counted.
EnterpriseUsers == {<<ScopeRows[i].enterprise, ScopeRows[i].mfcgd_id>> :
                       i \in {j \in 1..Len(ScopeRows) : ScopeRows[j].mfcgd_id # NoneStr}}
BreakdownReported == Pending /\ Op = "premium.enterprise_breakdown" /\ Res.kind = "text"

\* C17 as stated: enterprise_breakdown renders one line per distinct
\* enterprise in scope, and the request totals, cost totals and user counts of
\* the lines each add up to the total quantity, net cost and distinct
\* mfcgd_id count of the whole filtered scope.
C17_EnterpriseTotalsSum ==
    BreakdownReported =>
        /\ Len(Res.lines) = Cardinality(EnterprisesInScope)
        /\ BreakdownSum(1) = SeriesSum(Column(ScopeRows, "quantity"))
        /\ BreakdownSum(2) = SeriesSum(Column(ScopeRows, "net_amount"))
        /\ BreakdownSum(3) = NUnique(ScopeRows, "mfcgd_id")

\* C17, amended: one line per distinct enterprise in scope; the request and
\* cost totals add up to the total quantity and net cost of the scope; the
\* user counts add up to the number of distinct (enterprise, mfcgd_id) pairs,
\* which is the distinct mfcgd_id count of the scope exactly when no user
\* occurs under two enterprises, and is larger otherwise.
C17_EnterpriseTotalsPerEnterprise ==
    BreakdownReported =>
        /\ Len(Res.lines) = Cardinality(EnterprisesInScope)
        /\ BreakdownSum(1) = SeriesSum(Column(ScopeRows, "quantity"))
        /\ BreakdownSum(2) = SeriesSum(Column(ScopeRows, "net_amount"))
        /\ BreakdownSum(3) = Cardinality(EnterpriseUsers)
        /\ BreakdownSum(3) >= NUnique(ScopeRows, "mfcgd_id")
        /\ (BreakdownSum(3) = NUnique(ScopeRows, "mfcgd_id")) <=>
              (\A p, q \in EnterpriseUsers : p[2] = q[2] => p[1] = q[1])
C17_Witness ==
    /\ BreakdownReported
    /\ Len(Res.lines) = 2
    /\ BreakdownSum(3) = 2
    /\ NUnique(ScopeRows, "mfcgd_id") = 1

\* C18: in enterprise_breakdown each of the two known enterprises has its
\* own fixed label, any other enterprise value in the data is shown under its
\* raw value, and so no two enterprise values share a label.
C18_EnterpriseLabels ==
    BreakdownReported =>
        /\ \A k \in 1..Len(Res.lines) :
              Res.lines[k].tag =
                 CASE Res.lines[k].name = "manulife" -> "EMU (manulife)"
                   [] Res.lines[k].name = "manulife-financial" -> "Legacy (manulife-financial)"
                   [] OTHER -> Res.lines[k].name
        /\ \A j, k \in 1..Len(Res.lines) :
              Res.lines[j].name # Res.lines[k].name => Res.lines[j].tag # Res.lines[k].tag

\* The rows of the premium table in the segment and months of the pending
\* call whose is_employee flag is among the given ones.
RowsOfEmployment(flags) ==
    SelectSeq(engine.data, LAMBDA r :
        /\ r.is_employee \in flags
        /\ Arg.scope \in {NoneStr, ""} \/ Casefold(r.segment) = Casefold(Arg.scope)
        /\ InPeriod(r.month, RangeOf(Arg)))
EmploymentOf(user_type) ==
    CASE user_type = "fte" -> {TRUE} [] user_type = "contractor" -> {FALSE} [] user_type = "all" -> {TRUE, FALSE}
SummaryReported ==
    /\ Pending /\ Op = "premium.summary" /\ Arg.user_type \in UserTypes
    /\ Res.kind \in {"text", "sentence"}

\* C19: premium summary with user_type 'fte' reports the sum of quantity and
\* the distinct mfcgd_id count over exactly the rows with is_employee true
\* within the segment and month filters, with 'contractor' over exactly the
\* rows with is_employee false, and with 'all' over all rows.
C19_SummaryByUserType ==
    SummaryReported =>
        LET rows == RowsOfEmployment(EmploymentOf(Arg.user_type)) IN
        IF rows = <<>> THEN Res.kind = "sentence"
        ELSE /\ Res.kind = "text"
             /\ Res.lines[1].tag = "Total requests"
             /\ Res.lines[1].vals[1].n = SeriesSum(Column(rows, "quantity"))
             /\ Res.lines[2].tag = "Unique users (by Entra ID)"
             /\ Res.lines[2].vals[1].n = NUnique(rows, "mfcgd_id")
C19_Witness ==
    /\ SummaryReported /\ Res.kind = "text" /\ Arg.user_type = "fte"
    /\ RowsOfEmployment({FALSE}) # <<>>
    /\ Res.lines[1].vals[1].n < SeriesSum(Column(RowsOfEmployment({TRUE, FALSE}), "quantity"))
    /\ Res.lines[2].vals[1].n < NUnique(RowsOfEmployment({TRUE, FALSE}), "mfcgd_id")

(***************************************************************************)
(* The tool server (mcp/copilot_usage_server.py): engines and registry are *)
(* built once at import; POST /mcp/execute runs one tool per request.      *)
(***************************************************************************)
\* A variant of the registry that lists a tool no branch of the dispatcher handles.
ToolMetadataUnhandled ==
    {"segment_adoption_segments", "segment_adoption_summary", "segment_adoption_trend",
     "segment_adoption_leaders", "describe_metrics", "premium_requests_summary",
     "premium_requests_trend", "premium_requests_top_segments", "premium_requests_top_models",
     "premium_requests_enterprise_breakdown", "copilot_usage_summary"}

\* _TOOL_METADATA: the registered tool names.
ToolMetadata ==
    {"segment_adoption_segments", "segment_adoption_summary", "segment_adoption_trend",
     "segment_adoption_leaders", "describe_metrics", "premium_requests_summary",
     "premium_requests_trend", "premium_requests_top_segments", "premium_requests_top_models",
     "premium_requests_enterprise_breakdown"}

\* raise HTTPException(status_code, detail); the JSON response of a request.
HTTPException(status_code, detail) == [kind |-> "http_error", status_code |-> status_code, detail |-> detail]
Response(status_code, body) == [status_code |-> status_code, body |-> body]

\* MetricsRegistry: the catalogue read from the metrics file, or the error.
Catalogue == <<"fte_adoption", "premium_requests">>
RegistryConstruct(exists) ==
    IF exists THEN Returned([kind |-> "registry", metrics |-> Catalogue])
    ELSE Raise("MetricsRegistryError", "Metrics registry not found", {})
\* describe_metrics / as_markdown: the known ids in the order asked, each once.
RECURSIVE Distinct(_)
Distinct(s) ==
    IF s = <<>> THEN <<>>
    ELSE LET front == Distinct(SubSeq(s, 1, Len(s) - 1)) IN
         IF \E k \in 1..Len(front) : front[k] = s[Len(s)] THEN front ELSE Append(front, s[Len(s)])
\* A variant that ignores the identifiers asked for.
DescribeWholeCatalogue(registry, metric_ids) == registry.metrics

\* MetricsRegistry.describe_metrics: the keys of the returned dict, in order.
DescribeMetrics(registry, metric_ids) ==
    IF metric_ids.form = "absent" THEN registry.metrics
    ELSE Distinct(SelectSeq(metric_ids.ids,
             LAMBDA key : \E k \in 1..Len(registry.metrics) : registry.metrics[k] = key))

\* MetricsRegistry.as_markdown
AsMarkdown(registry, metric_ids) ==
    IF DescribeMetrics(registry, metric_ids) = <<>>
    THEN Sentence("No metric definitions available for the requested identifiers.")
    ELSE Text("Metric catalogue", NoneStr, NoPeriod,
              [k \in 1..Len(DescribeMetrics(registry, metric_ids)) |->
                  Line("metric", DescribeMetrics(registry, metric_ids)[k], NoneStr, <<>>)])

\* SegmentAdoptionAnalytics.available_segments and the segments tool's text.
AvailableSegments(data) == SortedNames({data[i].segment : i \in 1..Len(data)} \ {NoneStr})
SegmentsText(data) ==
    IF AvailableSegments(data) = <<>> THEN Sentence("No segments found in the dataset.")
    ELSE Text("Available segments", NoneStr, NoPeriod,
              [k \in 1..Len(AvailableSegments(data)) |->
                  Line("segment", AvailableSegments(data)[k], NoneStr, <<>>)])

\* _ensure_segment_analytics, _ensure_premium_analytics, _ensure_registry
EnsureAnalytics(slot, what) ==
    IF slot.kind = "raise" THEN HTTPException(503, what) ELSE slot

\* The normalisation of enum arguments and the default of limit.
SegMetricOf(a) == IF Truthy(a.metric) /\ a.metric \in SegMetrics THEN a.metric ELSE "fte_adoption"
UserTypeOf(a) == IF a.user_type \in UserTypes THEN a.user_type ELSE "all"
PremMetricOf(a, default) == IF a.metric \in PremMetrics THEN a.metric ELSE default
LimitOf(a, default) == IF IsNA(a.limit) THEN default ELSE Val(a.limit)

\* The branches of the try block of _execute_tool, given what the three
\* _ensure_ helpers give: the text returned, the exception an engine raised,
\* or the HTTPException of an _ensure_ helper.
ToolBranch(seg, prem, reg, tool_name, a) ==
    CASE tool_name = "segment_adoption_summary" ->
           IF seg.kind = "http_error" THEN seg
           ELSE SegSummary(seg.value.data, a.segment, a.start_month, a.end_month)
      [] tool_name = "segment_adoption_segments" ->
           IF seg.kind = "http_error" THEN seg ELSE SegmentsText(seg.value.data)
      [] tool_name = "segment_adoption_trend" ->
           IF seg.kind = "http_error" THEN seg
           ELSE SegTrend(seg.value.data, a.segment, SegMetricOf(a), a.start_month, a.end_month,
                         LimitOf(a, 6))
      [] tool_name = "segment_adoption_leaders" ->
           IF seg.kind = "http_error" THEN seg
           ELSE SegLeaders(seg.value.data, a.month, SegMetricOf(a), LimitOf(a, 5))
      [] tool_name = "describe_metrics" ->
           IF reg.kind = "http_error" THEN reg
           ELSE IF a.metric_ids.form = "scalar"
           THEN Raise(SegErr, "metric_ids must be a list of metric identifiers", {})
           ELSE AsMarkdown(reg.value, a.metric_ids)
      [] tool_name = "premium_requests_summary" ->
           IF prem.kind = "http_error" THEN prem
           ELSE PremSummary(prem.value.data, a.segment, UserTypeOf(a), a.start_month, a.end_month)
      [] tool_name = "premium_requests_trend" ->
           IF prem.kind = "http_error" THEN prem
           ELSE PremTrend(prem.value.data, a.segment, UserTypeOf(a), PremMetricOf(a, "requests"),
                          a.start_month, a.end_month, LimitOf(a, 6))
      [] tool_name = "premium_requests_top_segments" ->
           IF prem.kind = "http_error" THEN prem
           ELSE PremTopSegments(prem.value.data, UserTypeOf(a), PremMetricOf(a, "cost"),
                                a.start_month, a.end_month, LimitOf(a, 5))
      [] tool_name = "premium_requests_top_models" ->
           IF prem.kind = "http_error" THEN prem
           ELSE PremTopModels(prem.value.data, a.segment, UserTypeOf(a), a.start_month, a.end_month,
                              LimitOf(a, 5))
      [] tool_name = "premium_requests_enterprise_breakdown" ->
           IF prem.kind = "http_error" THEN prem
           ELSE PremEnterpriseBreakdown(prem.value.data, a.segment, UserTypeOf(a),
                                        a.start_month, a.end_month)
      [] OTHER -> [kind |-> "no branch"]

\* The body of the try block of _execute_tool on the server's components.
ToolBody(server, tool_name, a) ==
    ToolBranch(EnsureAnalytics(server.segment, "Segment adoption analytics unavailable"),
               EnsureAnalytics(server.premium, "Premium requests analytics unavailable"),
               EnsureAnalytics(server.registry, "Metrics registry unavailable"),
               tool_name, a)

\* The except clauses of _execute_tool: SegmentAdoptionConfigError becomes
\* 400; every other exception raised in the try block, HTTPException
\* included, becomes 500. A tool name that no branch handles falls through
\* to the final 404.
ToolResponse(body) ==
    IF body.kind = "no branch" THEN Response(404, HTTPException(404, "Unknown tool"))
    ELSE IF body.kind = "http_error" THEN Response(500, body)
    ELSE IF body.kind = "raise"
    THEN Response(IF body.exc = SegErr THEN 400 ELSE 500, body)
    ELSE Response(200, body)

\* _execute_tool
ExecuteToolFn(server, tool_name, a) == ToolResponse(ToolBody(server, tool_name, a))

\* Requests: a tool name and the arguments object (NoneStr: key absent).
ToolArgs(segment, user_type, metric, start_month, end_month, month, limit, metric_ids) ==
    [segment |-> segment, user_type |-> user_type, metric |-> metric, start_month |-> start_month,
     end_month |-> end_month, month |-> month, limit |-> limit, metric_ids |-> metric_ids]
MetricIdArgs ==
    {[form |-> "absent", ids |-> <<>>], [form |-> "scalar", ids |-> <<>>],
     [form |-> "list", ids |-> <<"premium_requests", "bogus", "premium_requests">>],
     [form |-> "list", ids |-> <<"bogus">>], [form |-> "list", ids |-> <<>>]}
ServerArgs ==
    {ToolArgs(sg, ut, mt, r[1], r[2], NoneStr, lim, [form |-> "absent", ids |-> <<>>]) :
        sg \in {NoneStr, "ASIA"}, ut \in {NoneStr, "fte", "invalid_type"},
        mt \in {NoneStr, "fte_active", "cost", "bogus"},
        r \in {<<NoneStr, NoneStr>>, <<"2025-01", "2025-02">>, <<"not-a-date", NoneStr>>,
               <<"2025-01", "bad">>, <<"2025-02", "2025-01">>},
        lim \in {Nothing, Some(1)}}
    \cup {ToolArgs(NoneStr, NoneStr, NoneStr, NoneStr, NoneStr, m, Nothing, ids) :
             m \in {NoneStr, "2025-01", "not-a-date"}, ids \in MetricIdArgs}
ServerSegFiles ==
    {[kind |-> "segment", exists |-> x, columns |-> SegRequired \cup SegOptional,
      rows |-> [i \in 1..Len(base) |-> SegFileRow(base[i], prof)]] :
        x \in BOOLEAN,
        base \in {<<>>, <<[month |-> "2025-01", segment |-> "ASIA", fte |-> <<Some(1), Some(2)>>],
                          [month |-> "2025-02", segment |-> "Canada", fte |-> <<Some(1), Some(0)>>]>>},
        prof \in {p \in SegFileProfiles : p.active_non_fte = Some(1)}}
ServerPremFiles ==
    {[kind |-> "premium", exists |-> x, columns |-> PremRequired, rows |-> t] :
        x \in BOOLEAN,
        t \in {<<>>, <<PremCells("2025-01", "u1", "manulife", "gpt", Some(2), Some(300), Some(100),
                                 Some(200), "ASIA", "TRUE", "TRUE"),
                       PremCells("2025-02", "u2", "manulife-financial", "claude", Some(1), Some(100),
                                 Some(0), Some(100), "Canada", "FALSE", "FALSE")>>}}

\* The module-level state after import.
InitServer ==
    /\ \E sf \in ServerSegFiles, pf \in ServerPremFiles, metrics \in BOOLEAN :
         /\ csv = [kind |-> "server", segment |-> sf, premium |-> pf, metrics |-> metrics]
         /\ engine = [kind |-> "server", segment |-> SegConstruct(sf), premium |-> PremConstruct(pf),
                      registry |-> RegistryConstruct(metrics)]
    /\ out = Nothing
    /\ holder = HolderInit
    /\ calls = [g \in Getters |-> <<>>]
    /\ thr = ThreadsIdle

\* POST /mcp/execute
ExecuteTool ==
    /\ out = Nothing
    /\ \E tool_name \in ToolMetadata \cup {"nonexistent_tool"}, a \in ServerArgs :
         out' = Some([op |-> tool_name, args |-> a,
                      res |-> IF tool_name \notin ToolMetadata
                              THEN Response(404, HTTPException(404, "Tool is not registered"))
                              ELSE ExecuteToolFn(engine, tool_name, a)])
    /\ UNCHANGED <<holder, calls, thr, csv, engine>>

NextServer == ExecuteTool \/ Consume
SpecServer == InitServer /\ [][NextServer]_vars

\* The arguments of the pending request that the tool reads and that are
\* invalid: an unrecognised user_type or metric, or a month that does not parse.
ReadsRange == ToolMetadata \ {"segment_adoption_segments", "segment_adoption_leaders", "describe_metrics"}
InvalidArguments ==
    \/ Op \in ReadsRange /\ (Unparsable(Arg.start_month) \/ Unparsable(Arg.end_month))
    \/ Op = "segment_adoption_leaders" /\ Unparsable(Arg.month)
    \/ Op \in {"premium_requests_summary", "premium_requests_trend", "premium_requests_top_segments",
               "premium_requests_top_models", "premium_requests_enterprise_breakdown"}
       /\ Arg.user_type \notin UserTypes \cup {NoneStr}
    \/ Op \in {"segment_adoption_trend", "segment_adoption_leaders"}
       /\ Arg.metric \notin SegMetrics \cup {NoneStr}
    \/ Op \in {"premium_requests_trend", "premium_requests_top_segments"}
       /\ Arg.metric \notin PremMetrics \cup {NoneStr}
\* Both engines and the registry were built at import.
ServerReady ==
    engine.segment.kind = "return" /\ engine.premium.kind = "return" /\ engine.registry.kind = "return"

\* C20: POST /mcp/execute for a registered tool whose arguments are invalid
\* (an unrecognised user_type or metric, or an unparsable start_month or
\* end_month) answers with status 200 or 400, never with a 5xx status.
C20_InvalidArgumentsNo5xx ==
    (Pending /\ ServerReady /\ Op \in ToolMetadata /\ InvalidArguments) => Res.status_code \in {200, 400}

\* C21: dispatch agrees with the registry. A request for a tool name that
\* is not registered is answered 404 as not registered, and a registered tool
\* is always handled by a branch of the dispatcher: it never reaches the
\* 'Unknown tool' 404 at the end of _execute_tool.
C21_DispatchMatchesRegistry ==
    Pending =>
        /\ Op \notin ToolMetadata =>
              Res.status_code = 404 /\ Res.body.detail = "Tool is not registered"
        /\ Op \in ToolMetadata =>
              /\ ToolBody(engine, Op, Arg).kind # "no branch"
              /\ ~(Res.status_code = 404 /\ Res.body.kind = "http_error" /\ Res.body.detail = "Unknown tool")
C21_Witness ==
    /\ Pending /\ Op = "nonexistent_tool"
    /\ Res.status_code = 404 /\ Res.body.detail = "Tool is not registered"

(***************************************************************************)
(* The usage agent's tools (agents/copilot_usage_agent.py): each tool is   *)
(* wrapped by _handle_analytics_errors around the lazy getter.             *)
(***************************************************************************)
AgentHolderInit == [kind |-> "agent", analytics |-> Nothing, error |-> Nothing, ctorCalls |-> 0]

\* _get_analytics: `made` is what the constructor gives on the configured
\* files; it runs only while neither the engine nor the error is cached.
GetAnalytics(h, made) ==
    IF IsNA(h.analytics) /\ IsNA(h.error)
    THEN IF made.kind = "return"
         THEN [holder |-> [h EXCEPT !.analytics = Some(made.value), !.ctorCalls = @ + 1], result |-> made]
         ELSE [holder |-> [h EXCEPT !.error = Some(made), !.ctorCalls = @ + 1], result |-> made]
    ELSE IF ~IsNA(h.error) THEN [holder |-> h, result |-> Val(h.error)]
    ELSE [holder |-> h, result |-> Returned(Val(h.analytics))]

\* available_divisions and the text of list_divisions_tool
AvailableDivisions(e) ==
    SortedNames({e.developer_usage[i].division : i \in 1..Len(e.developer_usage)} \ {NoneStr})
ListDivisions(e) ==
    IF AvailableDivisions(e) = <<>>
    THEN Sentence("No divisions found in the developer usage dataset.")
    ELSE Text("Available divisions", NoneStr, NoPeriod,
              [k \in 1..Len(AvailableDivisions(e)) |->
                  Line("division", AvailableDivisions(e)[k], NoneStr, <<>>)])

\* A variant of the wrapper that catches only the configuration error.
HandleConfigErrorsOnly(got, r) ==
    IF got.kind = "raise"
    THEN IF got.exc = UsageErr THEN Sentence("Analytics configuration error") ELSE got
    ELSE IF r.kind = "raise" /\ r.exc = UsageErr THEN Sentence("Unable to process request") ELSE r

\* _handle_analytics_errors(func): the wrapper's return value, from the
\* outcome `got` of _get_analytics() and the outcome `r` of func(analytics),
\* which runs only when the getter returned.
HandleAnalyticsErrors(got, r) ==
    IF got.kind = "raise"
    THEN IF got.exc = UsageErr
         THEN Sentence("Analytics configuration error")
         ELSE Sentence("Failed to initialize analytics")
    ELSE IF r.kind # "raise" THEN r
    ELSE IF r.exc = UsageErr THEN Sentence("Unable to process request")
    ELSE Sentence("Unexpected analytics failure")

\* Files the agent may be configured with, and the arguments of its tools.
AgentUsageFiles ==
    {GoodUsageFile, [GoodUsageFile EXCEPT !.exists = FALSE],
     [GoodUsageFile EXCEPT !.columns = {"developer_id", "month", "notes"}]}
AgentInteractionFiles ==
    {GoodInteractionsFile,
     [GoodInteractionsFile EXCEPT !.columns = {"developer_id", "notes"}],
     [GoodInteractionsFile EXCEPT !.columns = {"month", "notes"}],
     [exists |-> TRUE, columns |-> {"developer_id", "month", "division", "model", "request_count"},
      rows |-> <<InteractionCells("d1", "2025-01", "ASIA", "gpt", Some(2), Nothing, Nothing),
                 InteractionCells("d2", "2025-02", "Canada", "claude", Some(1), Nothing, Nothing)>>]}
AgentArgs ==
    {Args(n, NoneStr, NoneStr, r[1], r[2], 1) :
        n \in {NoneStr, "asia"},
        r \in {<<NoneStr, NoneStr>>, <<"2025-01", "2025-02">>, <<"bad", NoneStr>>,
               <<"2025-02", "2025-01">>, <<"NaT", NoneStr>>}}

InitAgent ==
    /\ \E u \in AgentUsageFiles, i \in AgentInteractionFiles :
         csv = [kind |-> "usage", usage |-> u, interactions |-> i]
    /\ engine = AgentHolderInit
    /\ out = Nothing
    /\ holder = HolderInit
    /\ calls = [g \in Getters |-> <<>>]
    /\ thr = ThreadsIdle

\* One call of a wrapped tool: the getter may set the cached engine or
\* error; `r` is the tool function's outcome on the engine the getter returns.
Got == GetAnalytics(engine, UsageConstruct(csv))
Analytics == Got.result.value
ToolCall(tool, a, r) ==
    /\ out = Nothing
    /\ out' = Some([op |-> tool, args |-> a, res |-> HandleAnalyticsErrors(Got.result, r)])
    /\ engine' = Got.holder
    /\ UNCHANGED <<holder, calls, thr, csv>>

SummarizeUsageTool ==
    /\ engine.kind = "agent"
    /\ \E a \in AgentArgs :
         ToolCall("summarize_usage_tool", a, SummarizeUsage(Analytics, a.scope, a.start_month, a.end_month))
AdoptionTrendTool ==
    /\ engine.kind = "agent"
    /\ \E a \in AgentArgs :
         ToolCall("adoption_trend_tool", a,
                  AdoptionTrend(Analytics, a.scope, a.start_month, a.end_month, a.limit))
ModelMixTool ==
    /\ engine.kind = "agent"
    /\ \E a \in AgentArgs :
         ToolCall("model_mix_tool", a, ModelMix(Analytics, a.scope, a.start_month, a.end_month, a.limit))
DivisionBreakdownTool ==
    /\ engine.kind = "agent"
    /\ \E a \in {x \in AgentArgs : x.scope = NoneStr} :
         ToolCall("division_breakdown_tool", a,
                  DivisionBreakdown(Analytics, a.start_month, a.end_month, a.limit))
ListDivisionsTool ==
    /\ engine.kind = "agent"
    /\ ToolCall("list_divisions_tool", NoArgs, ListDivisions(Analytics))

NextAgent ==
    \/ SummarizeUsageTool \/ AdoptionTrendTool \/ ModelMixTool
    \/ DivisionBreakdownTool \/ ListDivisionsTool \/ Consume
SpecAgent == InitAgent /\ [][NextAgent]_vars

\* C22: every tool wrapped by _handle_analytics_errors returns a text for
\* every argument combination and every holder state: a failed engine
\* initialisation and any exception of the query are rendered as a
\* diagnostic sentence, and no exception reaches the caller.
C22_WrappedToolsReturnText ==
    Pending =>
        /\ Res.kind \in {"text", "sentence"}
        /\ ~IsNA(engine.error) =>
              Res.title \in {"Analytics configuration error", "Failed to initialize analytics"}
\* A query on a loaded engine raised something other than the configuration error.
C22_Witness ==
    /\ Pending /\ ~IsNA(engine.analytics)
    /\ Res.kind = "sentence" /\ Res.title = "Unexpected analytics failure"

\* ---------------------------------------------------------------------
\* The Non-FTE line of a segment summary.

SegmentSummaryShown == Pending /\ Op = "segment.summary" /\ Res.kind = "text"
NonFteLineShown == \E i \in 1..Len(Res.lines) : Res.lines[i].tag = "Non-FTE"
NonFteSeats == SeriesSum(Column(ScopeRows, "seats_non_fte"))
NonFteActive == SeriesSum(Column(ScopeRows, "active_non_fte"))
NonFteBilling == DropNA(Column(ScopeRows, "billing_adoption_non_fte"))
NonFteBillingZeroOrAbsent ==
    \A i \in 1..Len(NonFteBilling) : Val(NonFteBilling[i]) = 0

\* C23: the Non-FTE line of a segment summary is omitted exactly when the
\* summed non-FTE seats are zero, the summed non-FTE active users are zero
\* and the non-FTE billing figure is zero or absent; otherwise it is shown.
C23_NonFteLineOmission ==
    SegmentSummaryShown =>
        (~NonFteLineShown <=>
            (NonFteSeats = 0 /\ NonFteActive = 0 /\ NonFteBillingZeroOrAbsent))

\* ---------------------------------------------------------------------
\* Segments without seats in the leaders ranking.

AdoptionMetrics == {"fte_adoption", "non_fte_adoption"}
SeatsColumn(metric) == IF metric = "fte_adoption" THEN "seats_fte" ELSE "seats_non_fte"
ActiveColumn(metric) == IF metric = "fte_adoption" THEN "active_fte" ELSE "active_non_fte"
RowsOfSegment(name) == SelectSeq(ScopeRows, LAMBDA r : r.segment = name)
SeatSum(name) == SeriesSum(Column(RowsOfSegment(name), SeatsColumn(Arg.metric)))
ActiveSum(name) == SeriesSum(Column(RowsOfSegment(name), ActiveColumn(Arg.metric)))
SegmentsInScope == {ScopeRows[i].segment : i \in 1..Len(ScopeRows)}
DefinedSegments == {n \in SegmentsInScope : SeatSum(n) > 0}
LeadersShown ==
    IF Res.kind = "text" THEN {Res.lines[k].name : k \in 1..Len(Res.lines)} ELSE {}
AdoptionLeaders ==
    /\ Pending /\ Op = "segment.leaders" /\ Arg.metric \in AdoptionMetrics
    /\ Res.kind \in {"text", "sentence"}

\* C24: segment leaders with an adoption metric and limit N >= 0 never lists
\* a segment whose seat sum is zero, neither as 0% nor as 'nan', and such
\* segments never displace ranked ones: the output lists the top
\* min(N, number of segments with a defined ratio) segments.
C24_UndefinedRatioNotRanked ==
    AdoptionLeaders =>
        /\ LeadersShown \subseteq DefinedSegments
        /\ Res.kind = "text" =>
              /\ Len(Res.lines) = Cardinality(LeadersShown)
              /\ \A k \in 1..Len(Res.lines) : Res.lines[k].vals[1].txt = "num"
        /\ Cardinality(LeadersShown) = Min(Arg.limit, Cardinality(DefinedSegments))
        /\ \A n \in LeadersShown : \A m \in DefinedSegments \ LeadersShown :
              ActiveSum(n) * SeatSum(m) >= ActiveSum(m) * SeatSum(n)
C24_Witness ==
    /\ AdoptionLeaders /\ Res.kind = "text" /\ Arg.limit = 1
    /\ Cardinality(SegmentsInScope) = 2 /\ Cardinality(DefinedSegments) = 1
    /\ LeadersShown = {"Canada"}

\* ---------------------------------------------------------------------
\* Monthly adoption percentages of the segment trend.

SegmentAdoptionTrend ==
    /\ Pending /\ Op = "segment.trend" /\ Arg.metric \in AdoptionMetrics
    /\ Res.kind = "text"
RowsOfMonth(label) == SelectSeq(ScopeRows, LAMBDA r : Strftime(r.month) = label)
MonthSeats(label) == SeriesSum(Column(RowsOfMonth(label), SeatsColumn(Arg.metric)))
MonthActive(label) == SeriesSum(Column(RowsOfMonth(label), ActiveColumn(Arg.metric)))
MeanOfRowPercentages(label) ==
    AggregatePercentage(RowsOfMonth(label),
        IF Arg.metric = "fte_adoption" THEN "fte_utilisation_pct" ELSE "non_fte_utilisation_pct")

\* C25: in a segment trend with an adoption metric, each month's percentage
\* is 100 * (sum of active over the month's rows in scope) / (sum of seats
\* over those rows), not the mean of the rows' percentages, and a month whose
\* seat sum is zero is rendered as 'no data', not as 0%.
C25_TrendFromMonthlySums ==
    SegmentAdoptionTrend =>
        \A k \in 1..Len(Res.lines) :
            LET label == Res.lines[k].month
                shown == Res.lines[k].vals[1]
            IN /\ RowsOfMonth(label) # <<>>
               /\ IF MonthSeats(label) = 0
                  THEN shown.txt = "no data"
                  ELSE shown = Fmt1(Some((MonthActive(label) * 100000) \div MonthSeats(label)))
C25_Witness ==
    /\ SegmentAdoptionTrend
    /\ \E k \in 1..Len(Res.lines) :
          /\ MonthSeats(Res.lines[k].month) > 0
          /\ Fmt1(MeanOfRowPercentages(Res.lines[k].month)) # Res.lines[k].vals[1]
    /\ \E k \in 1..Len(Res.lines) : Res.lines[k].vals[1].txt = "no data"

\* ---------------------------------------------------------------------
\* The metric catalogue.

DescribeCall ==
    /\ Pending /\ Op = "describe_metrics" /\ engine.registry.kind = "return"
    /\ Arg.metric_ids.form # "scalar"
CatalogueIds == {Catalogue[k] : k \in 1..Len(Catalogue)}
IdsAsked == {Arg.metric_ids.ids[k] : k \in 1..Len(Arg.metric_ids.ids)}
IdsWanted ==
    IF Arg.metric_ids.form = "absent" THEN CatalogueIds ELSE IdsAsked \cap CatalogueIds

\* C26: describe_metrics(ids) returns exactly the catalogue entries whose id
\* is in ids (unknown ids are left out without error, no ids gives the whole
\* catalogue), and as_markdown gives the single 'No metric definitions
\* available' line, never an empty text, whenever that selection is empty.
C26_DescribeMetricsSelection ==
    DescribeCall =>
        /\ Res.status_code = 200
        /\ IF IdsWanted = {}
           THEN Res.body = Sentence("No metric definitions available for the requested identifiers.")
           ELSE /\ Res.body.kind = "text"
                /\ {Res.body.lines[k].name : k \in 1..Len(Res.body.lines)} = IdsWanted
                /\ Len(Res.body.lines) = Cardinality(IdsWanted)
C26_Witness ==
    /\ DescribeCall /\ Arg.metric_ids.ids = <<"bogus">>
    /\ Res.status_code = 200 /\ Res.body.kind = "sentence"

\* ---------------------------------------------------------------------
\* The period text of a report.

DescribedOps ==
    {"segment.summary", "segment.trend", "usage.summarize_usage", "usage.adoption_trend",
     "usage.model_mix", "usage.division_breakdown", "premium.summary", "premium.trend",
     "premium.top_segments", "premium.top_models", "premium.enterprise_breakdown"}
RangeAccepted == NormalizeRange(Arg.start_month, Arg.end_month, "").kind = "return"
\* The call got as far as description(): it neither answered with one of the
\* sentences returned before the heading is built nor failed on the metric.
DescriptionReached ==
    /\ Pending /\ Op \in DescribedOps /\ RangeAccepted
    /\ Res.kind # "sentence" /\ Res.exc # "KeyError"
DocumentedForm ==
    IF Truthy(Arg.start_month) /\ Truthy(Arg.end_month)
    THEN IF PeriodOf(Arg.start_month) = PeriodOf(Arg.end_month) THEN "month" ELSE "range"
    ELSE IF Truthy(Arg.start_month) THEN "from"
    ELSE IF Truthy(Arg.end_month) THEN "up to"
    ELSE "all available months"

\* C27: for every month range accepted by _normalize_range (start and end
\* each optional, start <= end when both present), description() is
\* non-empty and is exactly one of the documented forms: the single month
\* when start = end, 'start to end' when they differ, 'from start',
\* 'up to end', or 'all available months'.
C27_DescriptionForms ==
    DescriptionReached =>
        /\ Res.kind = "text"
        /\ Res.period.form = DocumentedForm
        /\ Res.period.form \in {"month", "range", "from"} =>
              Res.period.a \in {MonthNames[k] : k \in 1..Len(MonthNames)}
        /\ Res.period.form = "range" =>
              Res.period.b \in {MonthNames[k] : k \in 1..Len(MonthNames)}

\* ---------------------------------------------------------------------
\* The holder of a lazy getter under sequential callers.

\* C28: in every state reached by a sequential series of calls of a lazy
\* engine getter, the cached engine and the cached error are never both set,
\* the engine constructor has run at most once, and after a successful
\* construction every later call returns that same engine instance.
C28_HolderInvariant ==
    \A g \in Getters :
        /\ IsNA(holder[g].analytics) \/ IsNA(holder[g].error)
        /\ holder[g].ctorCalls <= 1
        /\ Cardinality({i \in 1..Len(calls[g]) : calls[g][i].constructed}) <= 1
        /\ \A i, j \in 1..Len(calls[g]) :
              (i < j /\ calls[g][i].kind = "return")
                  => /\ calls[g][j].kind = "return"
                     /\ calls[g][j].value = calls[g][i].value
                     /\ calls[g][j].value = holder[g].analytics
                     /\ ~calls[g][j].constructed
C28_Witness ==
    \E g \in Getters :
        /\ Len(calls[g]) = MaxCalls
        /\ calls[g][1].kind = "return" /\ calls[g][1].constructed
        /\ calls[g][MaxCalls].kind = "return" /\ calls[g][MaxCalls].value = calls[g][1].value
        /\ holder[g].ctorCalls = 1 /\ IsNA(holder[g].error)

\* ---------------------------------------------------------------------
\* The division back-fill of the interaction table.

\* The interaction rows of the file that survive the month parsing, i.e. the
\* table before the join.
FileInteractions ==
    SelectSeq(csv.interactions.rows, LAMBDA r : ~IsNA(ParsePeriod(r.month)))
FileRequests ==
    IF "request_count" \in csv.interactions.columns
    THEN SeriesSum(Column(FileInteractions, "request_count"))
    ELSE Len(FileInteractions)
OrganisationSummary ==
    /\ Pending /\ Op = "usage.summarize_usage" /\ Res.kind = "text"
    /\ ~Truthy(Arg.scope) /\ ~Truthy(Arg.start_month) /\ ~Truthy(Arg.end_month)
    /\ "division" \notin csv.interactions.columns

\* C29: when the interaction table has no division column, back-filling the
\* division by joining on developer_id keeps every interaction row exactly
\* once: the number of interaction rows and the organisation-wide total
\* request count are the same after the join as before, for every usage
\* table, also one where a developer appears under more than one division.
C29_JoinKeepsInteractionRows ==
    OrganisationSummary =>
        /\ Len(engine.interactions) = Len(FileInteractions)
        /\ Res.lines[2].tag = "Copilot requests"
        /\ Res.lines[2].vals[1].n = FileRequests

\* ---------------------------------------------------------------------
\* Tools whose component failed to load.

SegmentTools ==
    {"segment_adoption_summary", "segment_adoption_segments", "segment_adoption_trend",
     "segment_adoption_leaders"}
ComponentOf(tool_name) ==
    IF tool_name \in SegmentTools THEN engine.segment
    ELSE IF tool_name = "describe_metrics" THEN engine.registry
    ELSE engine.premium
UnavailableDetails ==
    {"Segment adoption analytics unavailable", "Premium requests analytics unavailable",
     "Metrics registry unavailable"}
ComponentFailed == Pending /\ Op \in ToolMetadata /\ ComponentOf(Op).kind = "raise"

\* C30: when the segment engine, the premium engine or the metrics registry
\* failed to load at server start, POST /mcp/execute for any tool that depends
\* on that component answers with status 503 carrying the 'unavailable'
\* detail produced by the corresponding _ensure_ function.
C30_FailedComponent503 ==
    ComponentFailed =>
        /\ Res.status_code = 503
        /\ Res.body.kind = "http_error"
        /\ Res.body.detail \in UnavailableDetails

====
